---- MODULE Spec2Model ----
(***************************************************************************)
(* Model of the server-streaming retry engine of gax-nodejs:               *)
(* StreamProxy (streaming.ts) in the "new retry" mode                      *)
(* (type = SERVER_STREAMING, rest = false, gaxServerStreamingRetries).     *)
(*                                                                         *)
(* The upstream RequestStream of one attempt is the environment.  It       *)
(* follows the RequestStream contract: metadata, if any, is the first      *)
(* event; data precedes end, error and status; an attempt either completes *)
(* normally (end and status, in either order) or fails (error, possibly    *)
(* followed by status and by a late end); error never follows status, and  *)
(* these trailing events arrive before the backoff timer starts the next   *)
(* attempt.  A request stream whose cancel() has been invoked delivers no  *)
(* further data, and if it fails it fails with CANCELLED.                  *)
(***************************************************************************)
EXTENDS Integers, Sequences, FiniteSets, TLC

\* ---------------------------------------------------------------- bounds
MaxAttempts == 3
MaxData == 2
MaxTime == 2

\* pages of a script, resources of a page, results one iterator is asked for
MaxPages == 2

MaxPerPage == 2

MaxNext == 4

\* close() calls, explicit initialize() calls and API calls on one IAM client
MaxClose == 2

MaxInit == 2

MaxCall == 2

\* empty pages next() polls through before it gives up
maxAttemptsEmptyResponse == 10

\* ------------------------------------------------------- JavaScript values
\* undefined, for optional numeric settings
UNDEF == -99

Truthy(x) == x # UNDEF /\ x # 0

Min2(a, b) == IF a <= b THEN a ELSE b

Min3(a, b, c) == Min2(a, Min2(b, c))

\* Status codes (status.ts)
CANCELLED == 1
INVALID_ARGUMENT == 3
DEADLINE_EXCEEDED == 4
NOT_FOUND == 5
UNAVAILABLE == 14

\* error codes an upstream attempt can fail with
ErrCodes == {NOT_FOUND, UNAVAILABLE}

NoteTransient == "Exception occurred in retry method that was not classified as transient"
NoteZero == "Max retries is set to zero."
MsgBoth == "Cannot set both totalTimeoutMillis and maxRetries in backoffSettings."
MsgExceeded == "Exceeded maximum number of retries"
MsgTotalTimeout == "Total timeout of API exceeded"

\* ------------------------------------------------------------ call inputs
\* the request passed to setStream, and the user's resumption function
Argument == 0

ResumeFn(req) == req + 2

\* shouldRetryFn: absent, or a predicate given by the set of codes it accepts
NoFn == [present |-> FALSE, accepts |-> {}]

RetryCodesChoices == {<< >>, <<UNAVAILABLE>>, <<CANCELLED>>}

ShouldRetryFnChoices == {NoFn, [present |-> TRUE, accepts |-> {NOT_FOUND}]}

MaxRetriesChoices == {UNDEF, 0, 1, 2}

TotalTimeoutChoices == {UNDEF, 0, 2}

\* initialRpcTimeoutMillis, rpcTimeoutMultiplier, maxRpcTimeoutMillis
RpcDefault == [initial |-> UNDEF, mult |-> 1, max |-> 3]

RpcChoices ==
  { RpcDefault,
    [initial |-> 2, mult |-> 2, max |-> 3],
    [initial |-> 2, mult |-> 2, max |-> UNDEF] }

\* StreamType
StreamTypes == {"SERVER_STREAMING", "CLIENT_STREAMING", "BIDI_STREAMING"}

AllConfigs ==
  [ type : StreamTypes,
    rest : BOOLEAN,
    gaxServerStreamingRetries : BOOLEAN,
    retryCodes : RetryCodesChoices,
    shouldRetryFn : ShouldRetryFnChoices,
    maxRetries : MaxRetriesChoices,
    totalTimeoutMillis : TotalTimeoutChoices,
    rpc : RpcChoices,
    getResumptionRequestFn : BOOLEAN ]

\* setStream: the branch of the new retry engine
NewRetryModeIgnoringRest(c) ==
  c.type = "SERVER_STREAMING" /\ c.gaxServerStreamingRetries

NewRetryMode(c) ==
  c.type = "SERVER_STREAMING" /\ ~c.rest /\ c.gaxServerStreamingRetries

\* retry on the codes alone
Plain(c) == c.retryCodes = <<UNAVAILABLE>> /\ ~c.shouldRetryFn.present

\* the calls explored: every combination of the two budgets with the plain
\* policy, and the other settings varied where they are read
Configs ==
  { c \in AllConfigs :
      /\ NewRetryMode(c)
      /\ c.shouldRetryFn.present => c.retryCodes = <<UNAVAILABLE>> /\ c.maxRetries = 1
      /\ c.retryCodes = <<CANCELLED>> =>
           /\ ~c.shouldRetryFn.present /\ c.maxRetries = 1
           /\ c.totalTimeoutMillis = UNDEF /\ c.rpc = RpcDefault
      /\ c.totalTimeoutMillis = 0 => c.maxRetries \in {0, 1}
      /\ c.rpc # RpcDefault =>
           Plain(c) /\ c.maxRetries = UNDEF /\ c.totalTimeoutMillis = 2
      /\ c.getResumptionRequestFn =>
           Plain(c) /\ c.maxRetries # 0 /\ c.totalTimeoutMillis = UNDEF }

\* ------------------------------------------------------------------ state
VARIABLES
  cfg,              \* retry options of the call
  phase,            \* "constructed", "streaming", "threw"
  isCancelCalled,   \* StreamProxy._isCancelCalled
  responseHasSent,  \* StreamProxy._responseHasSent
  retries,          \* newStreamingRetryRequest: let retries
  timeout,          \* newStreamingRetryRequest: let timeout
  deadline,         \* newStreamingRetryRequest: let deadline
  now,              \* the last reading of the wall clock (new Date().getTime())
  att,              \* the request streams created so far, with their closures
  timers,           \* attempts whose error handler has a setTimeout pending
  retryStream,      \* state of the PassThrough handed to the consumer
  consumer,         \* events the consumer has observed, in order
  calls,            \* arguments StubCall was invoked with, in order
  checkCalls,       \* invocations of throwIfMaxRetriesOrTotalTimeoutExceeded
  cancelCalls,      \* cancel() invocations on request streams, in order: the
                    \* attempt, and whether its retry was pending at the time
  emitted,          \* data messages the upstream attempts emitted, in order
  userCancelled,    \* the consumer has called cancel() on the proxy
  terminations,     \* calls of retryStream.end() and retryStream.destroy(e),
                    \* in order
  written,          \* messages the consumer wrote that reached the upstream
  legacy,           \* streamingRetryRequest: its closure variables, the request
                    \* streams it created and the events of its retryStream
  apicall,          \* createApiCall: one streaming call from its options to its dispatch
  iter,             \* createIterator: one async iterator, the pages it is served and its results
  pstream,          \* createStream: one page stream, the pages it is served and its events
  backoff,          \* newStreamingRetryRequest: the retry delay of each error handler
  iam,              \* IamClient: its stub promise, its flag and the calls made on it
  pureIn,           \* input of a pure function under check
  pureOut           \* its result

streamVars ==
  << cfg, phase, isCancelCalled, responseHasSent, retries, timeout, deadline,
     now, att, timers, retryStream, consumer, calls, checkCalls, cancelCalls,
     emitted, userCancelled, terminations >>

pureVars == << pureIn, pureOut >>

\* the state of the calls that bypass the retry engine
directVars == << written >>

\* the legacy retry helper
legacyVars == << legacy >>

\* one call through createApiCall
callVars == << apicall >>

\* the async page iterator
iterVars == << iter >>

\* the page stream
pageStreamVars == << pstream >>

\* the retry delay of the retry engine
backoffVars == << backoff >>

\* the IAM client
iamVars == << iam >>

\* what the retry engine leaves alone
otherVars == << directVars, pureVars, legacyVars, callVars, iterVars, pageStreamVars, backoffVars, iamVars >>

vars == << streamVars, otherVars >>

NoPure == [fn |-> "none"]

\* an async iterator of createIterator before it is created
IterIdle ==
  [ pc |-> "none", script |-> [pages |-> << >>, tail |-> "end"],
    nextPageRequest |-> 0, cache |-> << >>, attempts |-> 0,
    requests |-> << >>, results |-> << >>, polled |-> 0 ]

\* a page stream of createStream before it is created
PageStreamIdle ==
  [ created |-> FALSE, script |-> [pages |-> << >>, tail |-> "end"],
    maxResults |-> -1, pageToken |-> 0, firstPageToken |-> 0,
    request |-> 0, started |-> FALSE, pushCount |-> 0, ended |-> FALSE,
    flowing |-> "null", resumeScheduled |-> FALSE, endEmitted |-> FALSE,
    immediates |-> << >>, inflight |-> << >>, requests |-> << >>,
    ops |-> << >>, buffer |-> << >>, seen |-> << >> ]

\* the retry delay before the first call
BackoffIdle ==
  [ pc |-> "none",
    settings |-> [initialRetryDelayMillis |-> 0, retryDelayMultiplier |-> 0,
                  maxRetryDelayMillis |-> 0],
    handlers |-> << >> ]

\* an IAM client before it is constructed
IamIdle ==
  [ constructed |-> FALSE, iamPolicyStub |-> "undefined", terminated |-> FALSE,
    createStubCalls |-> 0, initialized |-> << >>, explicit |-> 0,
    closes |-> << >>, stubCloseCalls |-> 0, assigned |-> << >>,
    calls |-> << >>, stubCalls |-> << >> ]

\* call options that were not passed
NoOptions == [present |-> FALSE]

\* a call through createApiCall before its settings are merged
CallIdle ==
  [ stage |-> "idle", gaxStreamingRetries |-> FALSE,
    options |-> [retry |-> NoOptions, retryRequestOptions |-> NoOptions],
    settings |-> UNDEF, thrown |-> "", callSteps |-> 0,
    errors |-> << >>, stubCalls |-> << >> ]

\* streamingRetryRequest before it is called
LegacyIdle ==
  [ started |-> FALSE, maxRetries |-> UNDEF, numNoResponseAttempts |-> 0,
    streamResponseHandled |-> FALSE, requests |-> << >>, out |-> << >>,
    piped |-> {}, destroyed |-> FALSE ]

\* ---------------------------------------------------------- error values
\* an error object: src is the attempt that raised it (0: synthesized by the
\* proxy), quoted the attempt whose error a synthesized message quotes, ms
\* the number of milliseconds a synthesized message quotes
UpstreamError(k, c) ==
  [code |-> c, msg |-> "upstream", note |-> "", src |-> k, quoted |-> 0, ms |-> UNDEF]

NoThrow == [thrown |-> FALSE]

Throw(e) == [thrown |-> TRUE, err |-> e]

\* ---------------------------------------------------------- retry policy
IndexOf(seq, x) ==
  IF \E i \in 1..Len(seq) : seq[i] = x
  THEN (CHOOSE i \in 1..Len(seq) : seq[i] = x /\ \A j \in 1..(i-1) : seq[j] # x) - 1
  ELSE -1

defaultShouldRetry(code, retry) ==
  IF (Len(retry.retryCodes) > 0 /\ IndexOf(retry.retryCodes, code) < 0)
     \/ Len(retry.retryCodes) = 0
  THEN FALSE
  ELSE TRUE

\* shouldRetryRequest with the codes ignored: only the predicate can retry
shouldRetryFnOnly(code, retry) ==
  retry.shouldRetryFn.present /\ code \in retry.shouldRetryFn.accepts

\* shouldRetryRequest with a predicate that cannot veto the codes
shouldRetryEither(code, retry) ==
  \/ defaultShouldRetry(code, retry)
  \/ retry.shouldRetryFn.present /\ code \in retry.shouldRetryFn.accepts

shouldRetryRequest(code, retry) ==
  IF retry.shouldRetryFn.present
  THEN code \in retry.shouldRetryFn.accepts
  ELSE defaultShouldRetry(code, retry)

\* ------------------------------------------------------- the exceeded-check
\* the exceeded-check with the retry count compared by > instead of >=
throwIfOffByOne(dl, maxRetries, totalTimeoutMillis, originalError, originalTimeout, nRetries, nowTime) ==
  IF Truthy(originalTimeout)
     /\ (totalTimeoutMillis = 0
         \/ (totalTimeoutMillis # UNDEF /\ totalTimeoutMillis < 0)
         \/ (dl # 0 /\ nowTime >= dl))
  THEN Throw([code |-> DEADLINE_EXCEEDED, msg |-> MsgTotalTimeout, note |-> "",
              src |-> 0, quoted |-> originalError.src, ms |-> originalTimeout])
  ELSE IF maxRetries = 0
  THEN Throw([originalError EXCEPT !.note = NoteZero])
  ELSE IF nRetries # 0 /\ maxRetries # UNDEF /\ nRetries > maxRetries
  THEN Throw([code |-> DEADLINE_EXCEEDED, msg |-> MsgExceeded, note |-> "",
              src |-> 0, quoted |-> originalError.src, ms |-> UNDEF])
  ELSE NoThrow

\* the exceeded-check without the test for a budget of zero retries
throwIfZeroIgnored(dl, maxRetries, totalTimeoutMillis, originalError, originalTimeout, nRetries, nowTime) ==
  IF Truthy(originalTimeout)
     /\ (totalTimeoutMillis = 0
         \/ (totalTimeoutMillis # UNDEF /\ totalTimeoutMillis < 0)
         \/ (dl # 0 /\ nowTime >= dl))
  THEN Throw([code |-> DEADLINE_EXCEEDED, msg |-> MsgTotalTimeout, note |-> "",
              src |-> 0, quoted |-> originalError.src, ms |-> originalTimeout])
  ELSE IF nRetries # 0 /\ maxRetries # UNDEF /\ nRetries >= maxRetries
  THEN Throw([code |-> DEADLINE_EXCEEDED, msg |-> MsgExceeded, note |-> "",
              src |-> 0, quoted |-> originalError.src, ms |-> UNDEF])
  ELSE NoThrow

throwIfMaxRetriesOrTotalTimeoutExceeded(dl, maxRetries, totalTimeoutMillis, originalError, originalTimeout, nRetries, nowTime) ==
  IF Truthy(originalTimeout)
     /\ (totalTimeoutMillis = 0
         \/ (totalTimeoutMillis # UNDEF /\ totalTimeoutMillis < 0)
         \/ (dl # 0 /\ nowTime >= dl))
  THEN Throw([code |-> DEADLINE_EXCEEDED, msg |-> MsgTotalTimeout, note |-> "",
              src |-> 0, quoted |-> originalError.src, ms |-> originalTimeout])
  ELSE IF maxRetries = 0
  THEN Throw([originalError EXCEPT !.note = NoteZero])
  ELSE IF nRetries # 0 /\ maxRetries # UNDEF /\ nRetries >= maxRetries
  THEN Throw([code |-> DEADLINE_EXCEEDED, msg |-> MsgExceeded, note |-> "",
              src |-> 0, quoted |-> originalError.src, ms |-> UNDEF])
  ELSE NoThrow

\* ------------------------------------------------- pieces of the handlers
\* data handler: the value the retry counter takes when a message arrives
\* a data handler that leaves the retry counter alone
dataRetriesKept(r) == r

dataRetries(r) == 0

\* a timer callback that resends the original argument
retryArgumentOriginal(argument, fnDefined) == argument

\* timer callback: the argument of the next StubCall
retryArgument(argument, fnDefined) ==
  IF fnDefined THEN ResumeFn(argument) ELSE argument

\* timer callback: the per-RPC timeout of the next attempt
nextTimeout(t, rpc, dl, nowTime) ==
  IF Truthy(t)
  THEN LET timeoutCal == IF Truthy(t) /\ Truthy(rpc.mult) THEN t * rpc.mult ELSE 0
           rpcTimeout == IF Truthy(rpc.max) THEN rpc.max ELSE 0
           newDeadline == IF dl # 0 THEN dl - nowTime ELSE 0
       IN  Min3(timeoutCal, rpcTimeout, newDeadline)
  ELSE t

\* newMakeRequest: the closure state of a freshly created request stream
NewAttempt ==
  [ md |-> FALSE, nData |-> 0, dataEnd |-> FALSE,
    statusReceived |-> FALSE, enteredError |-> FALSE, err |-> 0,
    cancelled |-> FALSE, destroyed |-> FALSE ]

\* the metadata and the status object request stream k emits
MetadataOf(k) == [m |-> k]

StatusOf(k) == [code |-> 0, metadata |-> [s |-> k]]

\* statusMetadataHelper: the response synthesized on 'metadata'
metadataResponse(metadata) ==
  [code |-> 200, details |-> "", message |-> "OK", metadata |-> metadata]

\* a status handler that copies the metadata of the status into the response
statusResponseWithMetadata(status) ==
  [code |-> 200, details |-> "", message |-> "OK", metadata |-> status.metadata]

\* statusMetadataHelper: the response synthesized on 'status'
statusResponse(status) == [code |-> 200, details |-> "", message |-> "OK"]

\* a status handler that ends the consumer stream without waiting for end
statusEndsAlways(dataEnd) == TRUE

\* status handler: if (dataEnd)
statusEnds(dataEnd) == dataEnd

\* an end handler that does not look at enteredError
endHandledAlways(enteredError) == TRUE

\* end handler: if (!enteredError)
endHandled(enteredError) == ~enteredError

\* retryStream.end(): the consumer observes end unless the stream is finished
EndLog(log, rs) == IF rs = "open" THEN Append(log, [ev |-> "end"]) ELSE log

EndState(rs) == IF rs = "open" THEN "ended" ELSE rs

\* retryStream.destroy(e): the consumer observes e unless the stream is finished
DestroyLog(log, rs, e) ==
  IF rs = "open" THEN Append(log, [ev |-> "error", error |-> e]) ELSE log

DestroyState(rs) == IF rs = "open" THEN "destroyed" ELSE rs

\* ------------------------------------------------------------------- Init
Init ==
  /\ cfg \in Configs
  /\ phase = "constructed"
  /\ isCancelCalled = FALSE
  /\ responseHasSent = FALSE
  /\ retries = 0
  /\ timeout = UNDEF
  /\ deadline = 0
  /\ now = 0
  /\ att = << >>
  /\ timers = {}
  /\ retryStream = "open"
  /\ consumer = << >>
  /\ calls = << >>
  /\ checkCalls = 0
  /\ cancelCalls = << >>
  /\ emitted = << >>
  /\ userCancelled = FALSE
  /\ terminations = << >>
  /\ written = << >>
  /\ legacy = LegacyIdle
  /\ apicall = CallIdle
  /\ iter = IterIdle
  /\ pstream = PageStreamIdle
  /\ backoff = BackoffIdle
  /\ iam = IamIdle
  /\ pureIn = NoPure
  /\ pureOut = NoPure

\* ---------------------------------------------------------------- actions
\* this.stream has been assigned
streamIsSet == phase = "streaming" \/ (phase = "direct" /\ att # << >>)

\* StreamProxy.cancel(); the consumer calls it at most once
Cancel ==
  /\ ~userCancelled
  /\ userCancelled' = TRUE
  /\ IF streamIsSet
     THEN \* this.stream is the upstream stream or, in the retry engine, the
          \* retryStream, whose cancel is the cancel of the request stream
          \* created last
          /\ cancelCalls' = Append(cancelCalls,
                                   [att |-> Len(att), pending |-> Len(att) \in timers,
                                    delivered |-> Len(emitted)])
          /\ att' = [att EXCEPT ![Len(att)].cancelled = TRUE]
          /\ UNCHANGED isCancelCalled
     ELSE /\ isCancelCalled' = TRUE
          /\ UNCHANGED << cancelCalls, att >>
  /\ UNCHANGED << cfg, phase, responseHasSent, retries, timeout, deadline, now,
                  timers, retryStream, consumer, calls, checkCalls, emitted >>
  /\ UNCHANGED << terminations, otherVars >>

\* StreamProxy.setStream() -> newStreamingRetryRequest -> first newMakeRequest
SetStream ==
  /\ phase = "constructed"
  /\ NewRetryMode(cfg)
  /\ retries' = 0
  /\ timeout' = cfg.rpc.initial
  /\ deadline' = IF Truthy(cfg.totalTimeoutMillis)
                 THEN now + cfg.totalTimeoutMillis ELSE 0
  /\ IF isCancelCalled
     THEN \* request() returns undefined; requestStream.cancel throws TypeError
          /\ phase' = "threw"
          /\ UNCHANGED << att, calls >>
     ELSE /\ phase' = "streaming"
          /\ calls' = Append(calls, Argument)
          /\ att' = Append(att, NewAttempt)
  /\ UNCHANGED << cfg, isCancelCalled, responseHasSent, now, timers, retryStream,
                  consumer, checkCalls, cancelCalls, emitted, userCancelled >>
  /\ UNCHANGED << terminations, otherVars >>

\* requestStream 'metadata': forwarded, then statusMetadataHelper's response
OnMetadata(k) ==
  /\ phase = "streaming"
  /\ k \in 1..Len(att)
  /\ ~att[k].md /\ att[k].nData = 0 /\ ~att[k].dataEnd /\ ~att[k].statusReceived
  /\ ~att[k].enteredError /\ ~att[k].destroyed
  /\ att' = [att EXCEPT ![k].md = TRUE]
  /\ consumer' = consumer \o << [ev |-> "metadata", att |-> k,
                                 metadata |-> MetadataOf(k)],
                                [ev |-> "response", att |-> k, md |-> TRUE,
                                 response |-> metadataResponse(MetadataOf(k))] >>
  /\ responseHasSent' = TRUE
  /\ UNCHANGED << cfg, phase, isCancelCalled, retries, timeout, deadline, now,
                  timers, retryStream, calls, checkCalls, cancelCalls, emitted,
                  userCancelled >>
  /\ UNCHANGED << terminations, otherVars >>

\* requestStream 'data'
OnData(k) ==
  /\ phase = "streaming"
  /\ k \in 1..Len(att)
  /\ Len(emitted) < MaxData
  /\ ~att[k].dataEnd /\ ~att[k].statusReceived /\ ~att[k].enteredError
  /\ ~att[k].cancelled /\ ~att[k].destroyed
  /\ att' = [att EXCEPT ![k].nData = @ + 1]
  /\ retries' = dataRetries(retries)
  /\ consumer' = Append(consumer, [ev |-> "data", att |-> k, idx |-> att[k].nData + 1])
  /\ emitted' = Append(emitted, << k, att[k].nData + 1 >>)
  /\ UNCHANGED << cfg, phase, isCancelCalled, responseHasSent, timeout, deadline,
                  now, timers, retryStream, calls, checkCalls, cancelCalls,
                  userCancelled >>
  /\ UNCHANGED << terminations, otherVars >>

\* requestStream 'status': forwarded, then statusMetadataHelper, then the
\* status handler of newMakeRequest
OnStatus(k) ==
  /\ phase = "streaming"
  /\ k \in 1..Len(att)
  /\ ~att[k].statusReceived
  /\ att' = [att EXCEPT ![k].statusReceived = TRUE]
  /\ LET fwd == Append(consumer, [ev |-> "status", att |-> k,
                                  status |-> StatusOf(k)])
         rsp == IF ~responseHasSent
                THEN Append(fwd, [ev |-> "response", att |-> k, md |-> FALSE,
                                  response |-> statusResponse(StatusOf(k))])
                ELSE fwd
     IN  IF statusEnds(att[k].dataEnd)
         THEN /\ consumer' = EndLog(rsp, retryStream)
              /\ retryStream' = EndState(retryStream)
              /\ terminations' = Append(terminations, "end")
         ELSE /\ consumer' = rsp
              /\ UNCHANGED << retryStream, terminations >>
  /\ UNCHANGED << cfg, phase, isCancelCalled, responseHasSent, retries, timeout,
                  deadline, now, timers, calls, checkCalls, cancelCalls, emitted,
                  userCancelled >>
  /\ UNCHANGED otherVars

\* requestStream 'end'
OnEnd(k) ==
  /\ phase = "streaming"
  /\ k \in 1..Len(att)
  /\ ~att[k].dataEnd /\ ~att[k].destroyed
  /\ IF endHandled(att[k].enteredError)
     THEN /\ att' = [att EXCEPT ![k].dataEnd = TRUE]
          /\ IF att[k].statusReceived
             THEN /\ consumer' = EndLog(consumer, retryStream)
                  /\ retryStream' = EndState(retryStream)
                  /\ terminations' = Append(terminations, "end")
             ELSE UNCHANGED << consumer, retryStream, terminations >>
     ELSE \* the attempt is in error handling: the end is ignored
          UNCHANGED << att, consumer, retryStream, terminations >>
  /\ UNCHANGED << cfg, phase, isCancelCalled, responseHasSent, retries, timeout,
                  deadline, now, timers, calls, checkCalls, cancelCalls, emitted,
                  userCancelled >>
  /\ UNCHANGED otherVars

\* error handler: its outer guard.  typeof yields a string, which never equals
\* the value undefined, so both comparisons are true whatever is configured.
budgetGuard(maxRetries, totalTimeout) == TRUE \/ TRUE

\* error handler: the mutual-exclusion test on backoffSettings
bothSet(maxRetries, totalTimeout) == Truthy(maxRetries) /\ Truthy(totalTimeout)

BothError ==
  [code |-> INVALID_ARGUMENT, msg |-> MsgBoth, note |-> "", src |-> 0,
   quoted |-> 0, ms |-> UNDEF]

\* a transientErrorHelper that attaches no note
transientErrorBare(e) == e

\* transientErrorHelper: the error the consumer stream is destroyed with
transientError(e) == [e EXCEPT !.note = NoteTransient]

\* the readings the wall clock can give from now on; it is read only when a
\* total deadline is set
Readings == IF deadline # 0 THEN now..MaxTime ELSE {now}

\* the codes request stream k can fail with
Failures(k) == IF att[k].cancelled THEN {CANCELLED} ELSE ErrCodes

\* requestStream 'error', raised when the clock reads t
OnError(k, c, t) ==
  /\ phase = "streaming"
  /\ k \in 1..Len(att)
  /\ c \in Failures(k)
  /\ ~att[k].enteredError /\ ~att[k].statusReceived /\ ~att[k].dataEnd
  /\ ~att[k].destroyed
  /\ t \in Readings
  /\ now' = t
  /\ LET e == UpstreamError(k, c)
         terminal(err) ==
           /\ att' = [att EXCEPT ![k].enteredError = TRUE, ![k].err = c,
                                 ![k].destroyed = TRUE]
           /\ consumer' = DestroyLog(consumer, retryStream, err)
           /\ retryStream' = DestroyState(retryStream)
           /\ terminations' = Append(terminations, "error")
           /\ UNCHANGED timers
     IN  IF budgetGuard(cfg.maxRetries, cfg.totalTimeoutMillis)
         THEN IF shouldRetryRequest(c, cfg)
              THEN IF bothSet(cfg.maxRetries, cfg.totalTimeoutMillis)
                   THEN /\ terminal(BothError)
                        /\ UNCHANGED checkCalls
                   ELSE LET r == throwIfMaxRetriesOrTotalTimeoutExceeded(
                                   deadline, cfg.maxRetries, timeout, e,
                                   cfg.totalTimeoutMillis, retries, t)
                        IN  /\ checkCalls' = checkCalls + 1
                            /\ IF r.thrown
                               THEN terminal(r.err)
                               ELSE /\ att' = [att EXCEPT ![k].enteredError = TRUE,
                                                          ![k].err = c]
                                    /\ timers' = timers \cup {k}
                                    /\ UNCHANGED << consumer, retryStream, terminations >>
              ELSE /\ terminal(transientError(e))
                   /\ UNCHANGED checkCalls
         ELSE /\ terminal(transientError(e))
              /\ UNCHANGED checkCalls
  /\ UNCHANGED << cfg, phase, isCancelCalled, responseHasSent, retries, timeout,
                  deadline, calls, cancelCalls, emitted, userCancelled >>
  /\ UNCHANGED otherVars

\* a timer callback that leaves the counter alone
retriesUncounted(r) == r

\* retries++
retriesCounted(r) == r + 1

\* the setTimeout callback of calculateTimeoutAndResumptionFunction, with the
\* newMakeRequest it ends in, run when the clock reads t
TimerFire(k, t) ==
  /\ phase = "streaming"
  /\ k \in timers
  /\ Len(att) < MaxAttempts
  /\ t \in Readings
  /\ now' = t
  /\ timers' = timers \ {k}
  /\ timeout' = nextTimeout(timeout, cfg.rpc, deadline, t)
  /\ retries' = retriesCounted(retries)
  /\ IF isCancelCalled
     THEN \* newRequest cancels this.stream and returns undefined
          /\ cancelCalls' = Append(cancelCalls,
                                   [att |-> Len(att), pending |-> FALSE,
                                    delivered |-> Len(emitted)])
          /\ UNCHANGED << att, calls >>
     ELSE /\ calls' = Append(calls, retryArgument(Argument, cfg.getResumptionRequestFn))
          /\ att' = Append(att, NewAttempt)
          /\ UNCHANGED cancelCalls
  /\ UNCHANGED << cfg, phase, isCancelCalled, responseHasSent, deadline,
                  retryStream, consumer, checkCalls, emitted, userCancelled >>
  /\ UNCHANGED << terminations, otherVars >>

\* the request stream whose events are being delivered
Emitting == IF att = << >> THEN {} ELSE {Len(att)}

Next ==
  \/ Cancel
  \/ SetStream
  \/ \E k \in Emitting : OnMetadata(k)
  \/ \E k \in Emitting : OnData(k)
  \/ \E k \in Emitting : OnStatus(k)
  \/ \E k \in Emitting : OnEnd(k)
  \/ \E k \in Emitting, c \in ErrCodes \cup {CANCELLED}, t \in 0..MaxTime : OnError(k, c, t)
  \/ \E k \in 1..MaxAttempts, t \in 0..MaxTime : TimerFire(k, t)

Spec == Init /\ [][Next]_vars

\* ----------------------------------- the calls that bypass the retry engine
\* REST server streaming, client streaming, bidi streaming and the legacy
\* server-streaming wrapper make their upstream call in setStream (the legacy
\* wrapper through its request callback).  What the retry-request package does
\* with the data, end and error of a legacy request stream is outside this
\* repository: for the legacy wrapper only forwardEvents is modelled.
LegacyMode(c) ==
  c.type = "SERVER_STREAMING" /\ ~c.rest /\ ~c.gaxServerStreamingRetries

\* setReadable(stream) is called with the upstream stream
setsReadable(c) ==
  (c.type = "SERVER_STREAMING" /\ c.rest) \/ c.type = "BIDI_STREAMING"

setsWritableBidiOnly(c) == c.type = "BIDI_STREAMING"

\* setWritable(stream) is called with the upstream stream
setsWritable(c) == c.type \in {"CLIENT_STREAMING", "BIDI_STREAMING"}

\* forwardEvents(stream) is called with the upstream stream
forwardsEvents(c) == ~(c.type = "SERVER_STREAMING" /\ c.rest)

\* the trailing test of setStream: if (this._isCancelCalled && this.stream)
cancelsOnSet(c, cancelCalled) == c.type # "SERVER_STREAMING" /\ cancelCalled

DirectAttempt(c, cancelCalled) ==
  [ md |-> FALSE, nData |-> 0, dataEnd |-> FALSE,
    statusReceived |-> FALSE, enteredError |-> FALSE, err |-> 0,
    cancelled |-> cancelsOnSet(c, cancelCalled), destroyed |-> FALSE,
    readable |-> setsReadable(c), writable |-> setsWritable(c),
    forwarded |-> forwardsEvents(c) ]

\* the calls explored outside the retry engine: every stream type and flag,
\* with retry options that would retry
DirectConfigs ==
  { c \in AllConfigs :
      /\ ~NewRetryMode(c)
      /\ c.rest => c.type = "SERVER_STREAMING"
      /\ Plain(c) /\ c.maxRetries = 2 /\ c.totalTimeoutMillis = UNDEF
      /\ c.rpc = RpcDefault /\ ~c.getResumptionRequestFn }

\* StreamProxy.setStream() outside the retry engine
DirectSetStream ==
  /\ phase = "constructed"
  /\ ~NewRetryMode(cfg)
  /\ phase' = "direct"
  /\ IF LegacyMode(cfg) /\ isCancelCalled
     THEN \* the request callback returns without calling the API
          UNCHANGED << att, calls, cancelCalls >>
     ELSE /\ calls' = Append(calls, Argument)
          /\ att' = << DirectAttempt(cfg, isCancelCalled) >>
          /\ cancelCalls' =
               IF cancelsOnSet(cfg, isCancelCalled)
               THEN Append(cancelCalls,
                           [att |-> 1, pending |-> FALSE, delivered |-> 0])
               ELSE cancelCalls
  /\ UNCHANGED << cfg, isCancelCalled, responseHasSent, retries, timeout,
                  deadline, now, timers, retryStream, consumer, checkCalls,
                  emitted, userCancelled, terminations >>
  /\ UNCHANGED otherVars

\* upstream 'metadata': eventForwardHelper, then statusMetadataHelper
DirectOnMetadata ==
  /\ phase = "direct" /\ att # << >>
  /\ att[1].forwarded
  /\ ~att[1].md /\ att[1].nData = 0 /\ ~att[1].dataEnd /\ ~att[1].statusReceived
  /\ ~att[1].enteredError
  /\ att' = [att EXCEPT ![1].md = TRUE]
  /\ consumer' = consumer \o << [ev |-> "metadata", att |-> 1,
                                 metadata |-> MetadataOf(1)],
                                [ev |-> "response", att |-> 1, md |-> TRUE,
                                 response |-> metadataResponse(MetadataOf(1))] >>
  /\ responseHasSent' = TRUE
  /\ UNCHANGED << cfg, phase, isCancelCalled, retries, timeout, deadline, now,
                  timers, retryStream, calls, checkCalls, cancelCalls, emitted,
                  userCancelled, terminations >>
  /\ UNCHANGED otherVars

\* upstream 'status': eventForwardHelper, then statusMetadataHelper
DirectOnStatus ==
  /\ phase = "direct" /\ att # << >>
  /\ att[1].forwarded
  /\ ~att[1].statusReceived
  /\ att' = [att EXCEPT ![1].statusReceived = TRUE]
  /\ LET fwd == Append(consumer, [ev |-> "status", att |-> 1,
                                  status |-> StatusOf(1)])
     IN  consumer' =
           IF ~responseHasSent
           THEN Append(fwd, [ev |-> "response", att |-> 1, md |-> FALSE,
                             response |-> statusResponse(StatusOf(1))])
           ELSE fwd
  /\ UNCHANGED << cfg, phase, isCancelCalled, responseHasSent, retries, timeout,
                  deadline, now, timers, retryStream, calls, checkCalls,
                  cancelCalls, emitted, userCancelled, terminations >>
  /\ UNCHANGED otherVars

\* upstream 'data', read through the readable side
DirectOnData ==
  /\ phase = "direct" /\ att # << >>
  /\ att[1].readable /\ retryStream = "open"
  /\ Len(emitted) < MaxData
  /\ ~att[1].dataEnd /\ ~att[1].statusReceived /\ ~att[1].enteredError
  /\ ~att[1].cancelled
  /\ att' = [att EXCEPT ![1].nData = @ + 1]
  /\ consumer' = Append(consumer, [ev |-> "data", att |-> 1, idx |-> att[1].nData + 1])
  /\ emitted' = Append(emitted, << 1, att[1].nData + 1 >>)
  /\ UNCHANGED << cfg, phase, isCancelCalled, responseHasSent, retries, timeout,
                  deadline, now, timers, retryStream, calls, checkCalls,
                  cancelCalls, userCancelled, terminations >>
  /\ UNCHANGED otherVars

\* upstream 'end', read through the readable side
DirectOnEnd ==
  /\ phase = "direct" /\ att # << >>
  /\ att[1].readable
  /\ ~att[1].dataEnd /\ ~att[1].enteredError
  /\ att' = [att EXCEPT ![1].dataEnd = TRUE]
  /\ consumer' = EndLog(consumer, retryStream)
  /\ retryStream' = EndState(retryStream)
  /\ UNCHANGED << cfg, phase, isCancelCalled, responseHasSent, retries, timeout,
                  deadline, now, timers, calls, checkCalls, cancelCalls, emitted,
                  userCancelled, terminations >>
  /\ UNCHANGED otherVars

\* upstream 'error': the proxy is destroyed with the error of its readable or
\* writable side; forwardEvents only decodes the error
DirectOnError(c) ==
  /\ phase = "direct" /\ att # << >>
  /\ att[1].readable \/ att[1].writable
  /\ c \in Failures(1)
  /\ ~att[1].enteredError /\ ~att[1].statusReceived /\ ~att[1].dataEnd
  /\ att' = [att EXCEPT ![1].enteredError = TRUE, ![1].err = c]
  /\ consumer' = DestroyLog(consumer, retryStream, UpstreamError(1, c))
  /\ retryStream' = DestroyState(retryStream)
  /\ UNCHANGED << cfg, phase, isCancelCalled, responseHasSent, retries, timeout,
                  deadline, now, timers, calls, checkCalls, cancelCalls, emitted,
                  userCancelled, terminations >>
  /\ UNCHANGED otherVars

\* the consumer writes a message; the writable side passes it upstream
DirectWrite ==
  /\ phase = "direct" /\ att # << >>
  /\ att[1].writable /\ retryStream = "open"
  /\ ~att[1].cancelled /\ ~att[1].enteredError
  /\ Len(written) < MaxData
  /\ written' = Append(written, Len(written) + 1)
  /\ UNCHANGED streamVars
  /\ UNCHANGED << pureVars, legacyVars, callVars, iterVars, pageStreamVars, backoffVars, iamVars >>

\* the new retry engine with one plain policy, beside the calls that bypass it
ModeConfigs ==
  DirectConfigs \cup
  { c \in Configs :
      /\ Plain(c) /\ c.maxRetries = 1 /\ c.totalTimeoutMillis = UNDEF
      /\ c.rpc = RpcDefault /\ ~c.getResumptionRequestFn }

InitModes ==
  /\ cfg \in ModeConfigs
  /\ phase = "constructed"
  /\ isCancelCalled = FALSE
  /\ responseHasSent = FALSE
  /\ retries = 0
  /\ timeout = UNDEF
  /\ deadline = 0
  /\ now = 0
  /\ att = << >>
  /\ timers = {}
  /\ retryStream = "open"
  /\ consumer = << >>
  /\ calls = << >>
  /\ checkCalls = 0
  /\ cancelCalls = << >>
  /\ emitted = << >>
  /\ userCancelled = FALSE
  /\ terminations = << >>
  /\ written = << >>
  /\ legacy = LegacyIdle
  /\ apicall = CallIdle
  /\ iter = IterIdle
  /\ pstream = PageStreamIdle
  /\ backoff = BackoffIdle
  /\ iam = IamIdle
  /\ pureIn = NoPure
  /\ pureOut = NoPure

NextDirect ==
  \/ DirectSetStream
  \/ DirectOnMetadata
  \/ DirectOnStatus
  \/ DirectOnData
  \/ DirectOnEnd
  \/ \E c \in ErrCodes \cup {CANCELLED} : DirectOnError(c)
  \/ DirectWrite

NextModes == Next \/ NextDirect

SpecModes == InitModes /\ [][NextModes]_vars

\* ------------------------------------------------ the legacy retry helper
\* streamingRetryRequest (streamingRetryRequest.ts).  Every request stream it
\* created keeps its listeners and stays piped into its delayStream; a
\* request stream emits at most one response and at most one error, in either
\* order ("gRPC via google-cloud-node can emit an error as well as a
\* response"), and data and end before its error.  For every request stream
\* the model records which event was handled first while it was the current
\* one (handled) and the stream that emitted it (handledSrc).
DEFAULTS == [maxRetries |-> 2]

\* opts.maxRetries: absent, or a number
LegacyMaxRetriesChoices == {UNDEF, 0, 1}

\* opts = Object.assign({}, DEFAULTS, opts)
legacyOptions(maxRetries) ==
  IF maxRetries = UNDEF THEN DEFAULTS.maxRetries ELSE maxRetries

\* makeRequest(), called for the error of request stream cause (0: the call
\* of streamingRetryRequest itself)
makeRequest(l, cause) ==
  [l EXCEPT !.streamResponseHandled = FALSE,
            !.requests = Append(@, [responded |-> FALSE, erred |-> FALSE,
                                    ended |-> FALSE, nData |-> 0,
                                    cause |-> cause, destroyListeners |-> 0,
                                    handled |-> "none", handledSrc |-> 0])]

\* a retry test that stops one request early
withinRetriesStrict(n, maxRetries) == n < maxRetries

\* if (numNoResponseAttempts <= opts.maxRetries)
withinRetries(n, maxRetries) == n <= maxRetries

\* streamResponseHandled = true, for an event of request stream k
handle(l, k, kind) ==
  [l EXCEPT !.streamResponseHandled = TRUE,
            !.requests[Len(l.requests)].handled = kind,
            !.requests[Len(l.requests)].handledSrc = k]

\* onResponse(err)
onResponseError(l, k) ==
  LET n == l.numNoResponseAttempts + 1
      counted == [l EXCEPT !.numNoResponseAttempts = n]
  IN  IF withinRetries(n, l.maxRetries)
      THEN makeRequest(counted, k)
      ELSE [counted EXCEPT !.out = Append(@, [ev |-> "error", src |-> k])]

\* what the delayStream of request stream j holds when it is piped on
delayed(l, j) ==
  [i \in 1..l.requests[j].nData |-> [ev |-> "data", src |-> j, idx |-> i]]
  \o (IF l.requests[j].ended THEN << [ev |-> "end", src |-> j] >> ELSE << >>)

\* onResponse(null, response): the current delayStream is piped into
\* retryStream, and the current requestStream gets a listener that destroys
\* retryStream on error
onResponseOk(l, k) ==
  LET cur == Len(l.requests)
  IN  [l EXCEPT !.out = Append(@, [ev |-> "response", src |-> k, cur |-> cur])
                       \o delayed(l, cur),
                !.piped = @ \cup {cur},
                !.requests[cur].destroyListeners = @ + 1]

InitLegacy ==
  /\ cfg = CHOOSE c \in Configs : TRUE
  /\ phase = "constructed"
  /\ isCancelCalled = FALSE
  /\ responseHasSent = FALSE
  /\ retries = 0
  /\ timeout = UNDEF
  /\ deadline = 0
  /\ now = 0
  /\ att = << >>
  /\ timers = {}
  /\ retryStream = "open"
  /\ consumer = << >>
  /\ calls = << >>
  /\ checkCalls = 0
  /\ cancelCalls = << >>
  /\ emitted = << >>
  /\ userCancelled = FALSE
  /\ terminations = << >>
  /\ written = << >>
  /\ legacy \in {[LegacyIdle EXCEPT !.maxRetries = m] : m \in LegacyMaxRetriesChoices}
  /\ apicall = CallIdle
  /\ iter = IterIdle
  /\ pstream = PageStreamIdle
  /\ backoff = BackoffIdle
  /\ iam = IamIdle
  /\ pureIn = NoPure
  /\ pureOut = NoPure

\* streamingRetryRequest(opts)
LegacyStart ==
  /\ ~legacy.started
  /\ legacy' = makeRequest([legacy EXCEPT !.started = TRUE,
                                          !.maxRetries = legacyOptions(@)], 0)
  /\ UNCHANGED << streamVars, directVars, pureVars, callVars, iterVars, pageStreamVars, backoffVars, iamVars >>

\* request stream k emits 'response'
LegacyOnResponse(k) ==
  /\ legacy.started
  /\ k \in 1..Len(legacy.requests)
  /\ ~legacy.requests[k].responded
  /\ ~legacy.requests[k].ended
  /\ LET seen == [legacy EXCEPT !.requests[k].responded = TRUE]
     IN  legacy' = IF legacy.streamResponseHandled
                   THEN seen
                   ELSE onResponseOk(handle(seen, k, "response"), k)
  /\ UNCHANGED << streamVars, directVars, pureVars, callVars, iterVars, pageStreamVars, backoffVars, iamVars >>

\* request stream k emits 'error': the listener of makeRequest, then the
\* listeners onResponse added to this stream
LegacyOnError(k) ==
  /\ legacy.started
  /\ k \in 1..Len(legacy.requests)
  /\ ~legacy.requests[k].erred /\ ~legacy.requests[k].ended
  /\ LET seen == [legacy EXCEPT !.requests[k].erred = TRUE]
         first == IF legacy.streamResponseHandled
                  THEN seen
                  ELSE onResponseError(handle(seen, k, "error"), k)
     IN  legacy' = IF legacy.requests[k].destroyListeners > 0
                   THEN [first EXCEPT !.destroyed = TRUE,
                                      !.out = Append(@, [ev |-> "destroy", src |-> k])]
                   ELSE first
  /\ UNCHANGED << streamVars, directVars, pureVars, callVars, iterVars, pageStreamVars, backoffVars, iamVars >>

\* request stream k emits a data message, which its delayStream passes on
\* once it is piped into retryStream
LegacyOnData(k) ==
  /\ legacy.started
  /\ k \in 1..Len(legacy.requests)
  /\ ~legacy.requests[k].erred /\ ~legacy.requests[k].ended
  /\ legacy.requests[k].nData < MaxData
  /\ LET n == legacy.requests[k].nData + 1
         got == [legacy EXCEPT !.requests[k].nData = n]
     IN  legacy' = IF k \in legacy.piped /\ ~legacy.destroyed
                   THEN [got EXCEPT !.out = Append(@, [ev |-> "data", src |-> k, idx |-> n])]
                   ELSE got
  /\ UNCHANGED << streamVars, directVars, pureVars, callVars, iterVars, pageStreamVars, backoffVars, iamVars >>

\* request stream k ends
LegacyOnEnd(k) ==
  /\ legacy.started
  /\ k \in 1..Len(legacy.requests)
  /\ ~legacy.requests[k].erred /\ ~legacy.requests[k].ended
  /\ LET got == [legacy EXCEPT !.requests[k].ended = TRUE]
     IN  legacy' = IF k \in legacy.piped /\ ~legacy.destroyed
                   THEN [got EXCEPT !.out = Append(@, [ev |-> "end", src |-> k])]
                   ELSE got
  /\ UNCHANGED << streamVars, directVars, pureVars, callVars, iterVars, pageStreamVars, backoffVars, iamVars >>

\* the request streams streamingRetryRequest can have created
LegacyStreams == 1..(DEFAULTS.maxRetries + 1)

NextLegacy ==
  \/ LegacyStart
  \/ \E k \in LegacyStreams : LegacyOnResponse(k)
  \/ \E k \in LegacyStreams : LegacyOnError(k)
  \/ \E k \in LegacyStreams : LegacyOnData(k)
  \/ \E k \in LegacyStreams : LegacyOnEnd(k)

SpecLegacy == InitLegacy /\ [][NextLegacy]_vars

\* ------------------------------------------- one call through createApiCall
\* the call options are merged into the settings, then the streaming caller's
\* call step hands the call to StreamProxy.setStream
MsgOnlyOne == "Only one of retry or retryRequestOptions may be set"

MsgResumption ==
  "getResumptionRequestFn can only be used when gaxStreamingRetries is set to true."

\* retry options a caller passes at call time
RetryChoices == [present : {TRUE}, getResumptionRequestFn : BOOLEAN]

\* retryRequestOptions a caller passes at call time (delays in seconds)
RetryRequestOptionsChoices ==
  [ present : {TRUE}, retries : {UNDEF, 0, 1}, maxRetryDelay : {0, 1, 70},
    retryDelayMultiplier : {0, 3}, totalTimeout : {0, 2},
    shouldRetryFn : {"alwaysRetry", "neverRetry"} ]

CallOptionsChoices ==
  [ retry : {NoOptions} \cup RetryChoices,
    retryRequestOptions : {NoOptions} \cup RetryRequestOptionsChoices ]

\* a conversion that takes a budget of zero retries for an absent one
convertTruthy(rro) ==
  [ present |-> TRUE,
    retryCodes |-> << >>,
    shouldRetryFn |-> rro.shouldRetryFn,
    getResumptionRequestFn |-> FALSE,
    backoffSettings |->
      [ maxRetryDelayMillis |-> rro.maxRetryDelay * 1000,
        retryDelayMultiplier |-> rro.retryDelayMultiplier,
        maxRetries |-> IF Truthy(rro.retries) THEN rro.retries ELSE UNDEF,
        totalTimeoutMillis |->
          IF Truthy(rro.retries) THEN UNDEF ELSE rro.totalTimeout * 1000 ] ]

\* the legacy options bridge: retryRequestOptions as retry options
convertRetryOptions(rro) ==
  [ present |-> TRUE,
    retryCodes |-> << >>,
    shouldRetryFn |-> rro.shouldRetryFn,
    getResumptionRequestFn |-> FALSE,
    backoffSettings |->
      [ maxRetryDelayMillis |-> rro.maxRetryDelay * 1000,
        retryDelayMultiplier |-> rro.retryDelayMultiplier,
        maxRetries |-> IF rro.retries # UNDEF THEN rro.retries ELSE UNDEF,
        totalTimeoutMillis |->
          IF rro.retries # UNDEF THEN UNDEF ELSE rro.totalTimeout * 1000 ] ]

\* a merge that accepts both kinds of options and lets retry win
mergeUnchecked(options, gaxStreamingRetries) ==
  IF gaxStreamingRetries /\ options.retryRequestOptions.present /\ ~options.retry.present
  THEN [ thrown |-> FALSE,
         retry |-> convertRetryOptions(options.retryRequestOptions),
         retryRequestOptions |-> NoOptions ]
  ELSE [ thrown |-> FALSE, retry |-> options.retry,
         retryRequestOptions |-> options.retryRequestOptions ]

\* the settings merge: both kinds of options together are refused; with the
\* new retry engine retryRequestOptions are converted and cleared, without it
\* they are kept for the legacy path of setStream
mergeSettings(options, gaxStreamingRetries) ==
  IF options.retry.present /\ options.retryRequestOptions.present
  THEN Throw(MsgOnlyOne)
  ELSE IF gaxStreamingRetries /\ options.retryRequestOptions.present
  THEN [ thrown |-> FALSE,
         retry |-> convertRetryOptions(options.retryRequestOptions),
         retryRequestOptions |-> NoOptions ]
  ELSE [ thrown |-> FALSE, retry |-> options.retry,
         retryRequestOptions |-> options.retryRequestOptions ]

\* a call step that hands every call to setStream
failsFastNever(settings, gaxStreamingRetries) == FALSE

\* the call step refuses a resumption function without the new retry engine
failsFast(settings, gaxStreamingRetries) ==
  /\ ~gaxStreamingRetries
  /\ settings.retry.present
  /\ settings.retry.getResumptionRequestFn

InitCall ==
  /\ cfg = CHOOSE c \in Configs : TRUE
  /\ phase = "constructed"
  /\ isCancelCalled = FALSE
  /\ responseHasSent = FALSE
  /\ retries = 0
  /\ timeout = UNDEF
  /\ deadline = 0
  /\ now = 0
  /\ att = << >>
  /\ timers = {}
  /\ retryStream = "open"
  /\ consumer = << >>
  /\ calls = << >>
  /\ checkCalls = 0
  /\ cancelCalls = << >>
  /\ emitted = << >>
  /\ userCancelled = FALSE
  /\ terminations = << >>
  /\ written = << >>
  /\ legacy = LegacyIdle
  /\ apicall \in { [CallIdle EXCEPT !.options = o, !.gaxStreamingRetries = g] :
                     o \in CallOptionsChoices, g \in BOOLEAN }
  /\ iter = IterIdle
  /\ pstream = PageStreamIdle
  /\ backoff = BackoffIdle
  /\ iam = IamIdle
  /\ pureIn = NoPure
  /\ pureOut = NoPure

\* createApiCall: the call options are merged into the settings
CallMerge ==
  /\ apicall.stage = "idle"
  /\ LET m == mergeSettings(apicall.options, apicall.gaxStreamingRetries)
     IN  apicall' =
           IF m.thrown
           THEN [apicall EXCEPT !.stage = "threw", !.thrown = m.err]
           ELSE [apicall EXCEPT !.stage = "merged",
                                !.settings = [retry |-> m.retry,
                                              retryRequestOptions |-> m.retryRequestOptions]]
  /\ UNCHANGED << streamVars, directVars, pureVars, legacyVars, iterVars, pageStreamVars, backoffVars, iamVars >>

\* the streaming caller's call step: fail the stream, or setStream and with
\* it the first StubCall
CallStep ==
  /\ apicall.stage = "merged"
  /\ apicall' =
       IF failsFast(apicall.settings, apicall.gaxStreamingRetries)
       THEN [apicall EXCEPT !.stage = "failed", !.callSteps = @ + 1,
                            !.errors = Append(@, MsgResumption)]
       ELSE [apicall EXCEPT !.stage = "dispatched", !.callSteps = @ + 1,
                            !.stubCalls = Append(@, Argument)]
  /\ UNCHANGED << streamVars, directVars, pureVars, legacyVars, iterVars, pageStreamVars, backoffVars, iamVars >>

NextCall == CallMerge \/ CallStep

SpecCall == InitCall /\ [][NextCall]_vars

\* ------------------------------------------------------ the page engine
\* A paged API is a script of pages: page t is fetched by the request with
\* page token t and names the request for page t + 1, or none. A script
\* either ends with its last page or goes on with empty pages for ever.
\* Requests are identified by their page token; the caller's request is 1.
\* Every page holds an array or a map of resources (never null).
NoRequest == 0

FirstRequest == 1

\* the resources of a page: an array with null elements, or a map
PageKinds ==
  { [map |-> FALSE, items |-> q] :
      q \in UNION { [1..n -> {"r", "null"}] : n \in 0..MaxPerPage } }
  \cup { [map |-> TRUE, items |-> [i \in 1..n |-> "r"]] : n \in 0..MaxPerPage }

PageScripts ==
  [ pages : UNION { [1..n -> PageKinds] : n \in 0..MaxPages },
    tail : {"end", "empty"} ]

EmptyPage == [map |-> FALSE, items |-> << >>]

\* the [result, nextPageRequest] the API returns for the request with token t
PageOf(script, t) ==
  IF t <= Len(script.pages) THEN script.pages[t] ELSE EmptyPage

NextOf(script, t) ==
  IF t < Len(script.pages) \/ script.tail = "empty" THEN t + 1 ELSE NoRequest

\* element i of the array of page t
ArrayItem(page, t, i) ==
  IF page.items[i] = "null"
  THEN [shape |-> "null", page |-> t, idx |-> i]
  ELSE [shape |-> "value", page |-> t, idx |-> i]

\* entry i of the map of page t, as Object.entries gives it
MapEntry(page, t, i) == [shape |-> "pair", page |-> t, idx |-> i]

\* a cache fill that spreads a map as if it were an array
cacheItemsSpread(page, t) ==
  [i \in 1..Len(page.items) |-> ArrayItem(page, t, i)]

\* what one page adds to the cache
cacheItems(page, t) ==
  IF page.map
  THEN [i \in 1..Len(page.items) |-> MapEntry(page, t, i)]
  ELSE [i \in 1..Len(page.items) |-> ArrayItem(page, t, i)]

\* the loop test of next()
polling(it) == it.cache = << >> /\ it.nextPageRequest # NoRequest

\* a guard that gives up one empty page earlier
giveUpEarly(attempts) == attempts >= maxAttemptsEmptyResponse

\* the empty-page guard of next()
giveUp(attempts) == attempts > maxAttemptsEmptyResponse

\* the value next() resolves with once its loop is over
finish(it) ==
  IF it.cache = << >>
  THEN [it EXCEPT !.pc = "idle",
                  !.results = Append(@, [done |-> TRUE, value |-> UNDEF])]
  ELSE [it EXCEPT !.pc = "idle", !.cache = Tail(@),
                  !.results = Append(@, [done |-> FALSE, value |-> Head(it.cache)])]

InitIter ==
  /\ cfg = CHOOSE c \in Configs : TRUE
  /\ phase = "constructed"
  /\ isCancelCalled = FALSE
  /\ responseHasSent = FALSE
  /\ retries = 0
  /\ timeout = UNDEF
  /\ deadline = 0
  /\ now = 0
  /\ att = << >>
  /\ timers = {}
  /\ retryStream = "open"
  /\ consumer = << >>
  /\ calls = << >>
  /\ checkCalls = 0
  /\ cancelCalls = << >>
  /\ emitted = << >>
  /\ userCancelled = FALSE
  /\ terminations = << >>
  /\ written = << >>
  /\ legacy = LegacyIdle
  /\ apicall = CallIdle
  /\ iter \in { [IterIdle EXCEPT !.pc = "idle", !.script = sc,
                                 !.nextPageRequest = FirstRequest] :
                  sc \in PageScripts }
  /\ pstream = PageStreamIdle
  /\ backoff = BackoffIdle
  /\ iam = IamIdle
  /\ pureIn = NoPure
  /\ pureOut = NoPure

\* next() is called: a cached resource is returned at once, otherwise the
\* polling loop is entered with attempts = 0
IterNext ==
  /\ iter.pc = "idle"
  /\ Len(iter.results) < MaxNext
  /\ iter' = IF iter.cache # << >>
             THEN finish(iter)
             ELSE [iter EXCEPT !.pc = "loop", !.attempts = 0, !.polled = 0]
  /\ UNCHANGED << streamVars, directVars, pureVars, legacyVars, callVars,
                  pageStreamVars, backoffVars, iamVars >>

\* the loop test holds: the next page is requested
IterRequest ==
  /\ iter.pc = "loop"
  /\ polling(iter)
  /\ iter' = [iter EXCEPT !.pc = "await",
                          !.requests = Append(@, iter.nextPageRequest),
                          !.polled = @ + 1]
  /\ UNCHANGED << streamVars, directVars, pureVars, legacyVars, callVars,
                  pageStreamVars, backoffVars, iamVars >>

\* the page arrives: the cache is filled, the next-page request replaced and
\* an empty page counted
IterPage ==
  /\ iter.pc = "await"
  /\ LET t == iter.nextPageRequest
         filled == iter.cache \o cacheItems(PageOf(iter.script, t), t)
         n == IF filled = << >> THEN iter.attempts + 1 ELSE iter.attempts
     IN  iter' = [iter EXCEPT !.cache = filled,
                              !.nextPageRequest = NextOf(iter.script, t),
                              !.attempts = n,
                              !.pc = IF filled = << >> /\ giveUp(n)
                                     THEN "break" ELSE "loop"]
  /\ UNCHANGED << streamVars, directVars, pureVars, legacyVars, callVars,
                  pageStreamVars, backoffVars, iamVars >>

\* the loop is over: next() resolves
IterReturn ==
  /\ \/ iter.pc = "break"
     \/ iter.pc = "loop" /\ ~polling(iter)
  /\ iter' = finish(iter)
  /\ UNCHANGED << streamVars, directVars, pureVars, legacyVars, callVars,
                  pageStreamVars, backoffVars, iamVars >>

NextIter == IterNext \/ IterRequest \/ IterPage \/ IterReturn

SpecIter == InitIter /\ [][NextIter]_vars

\* ---------------------------------------------------------- createStream
\* The stream is a PassThrough in object mode. push() on a flowing stream
\* with an empty read buffer is a 'data' event at once, otherwise the item is
\* buffered; end() makes _readableState.ended true at once; resume() on a
\* stream that is not flowing schedules one 'resume' event, after whose
\* listeners the buffer is delivered if the stream still flows; isPaused()
\* is true after pause() only. The pages of a stream are arrays, and its
\* script ends.
PageStreamScripts ==
  { sc \in PageScripts :
      /\ sc.tail = "end"
      /\ \A t \in 1..Len(sc.pages) : ~sc.pages[t].map }

\* options.maxResults: absent, or the number given
MaxResultsChoices == {UNDEF, 0, 1, 3}

\* options.pageToken: absent, or the token of a page
PageTokenChoices == {NoRequest} \cup 1..MaxPages

\* the options explored: a cap or a page token
PageStreamOptions ==
  { o \in [maxResults : MaxResultsChoices, pageToken : PageTokenChoices] :
      o.pageToken = NoRequest \/ o.maxResults = UNDEF }

\* const maxResults = 'maxResults' in options ? options.maxResults : -1
maxResultsOf(given) == IF given = UNDEF THEN -1 ELSE given

\* the page the API serves for a request made with these options: a
\* pageToken in the options overwrites the page token of the request
ServedPage(request, pageToken) ==
  IF pageToken # NoRequest THEN pageToken ELSE request

\* apiCall(request, options, callback) is invoked
issue(ps, request) ==
  [ps EXCEPT !.requests = Append(@, [request |-> request, pageToken |-> ps.pageToken]),
             !.inflight = Append(@, ServedPage(request, ps.pageToken))]

\* a cap that is tested before the push is counted
capReachedBeforeCount(pushCount, maxResults) == pushCount - 1 = maxResults

\* if (pushCount === maxResults), after pushCount++
capReached(pushCount, maxResults) == pushCount = maxResults

\* a loop that pushes null resources too
skippedNever(resource) == FALSE

\* if (resources[i] === null) continue
skipped(resource) == resource = "null"

\* the for loop of callback, from element i of the page on
RECURSIVE pushResources(_, _, _, _)
pushResources(ps, page, t, i) ==
  IF i > Len(page.items) \/ ps.ended
  THEN ps
  ELSE IF skipped(page.items[i])
  THEN pushResources(ps, page, t, i + 1)
  ELSE LET item == ArrayItem(page, t, i)
           direct == ps.flowing = "flowing" /\ ps.buffer = << >>
           pushed == [ps EXCEPT !.buffer = IF direct THEN @ ELSE Append(@, item),
                                !.seen = IF direct
                                         THEN Append(@, [ev |-> "data", item |-> item])
                                         ELSE @,
                                !.ops = Append(@, [op |-> "push", item |-> item]),
                                !.pushCount = @ + 1]
           capped == IF capReached(pushed.pushCount, ps.maxResults)
                     THEN [pushed EXCEPT !.ended = TRUE,
                                         !.ops = Append(@, [op |-> "end"])]
                     ELSE pushed
       IN  pushResources(capped, page, t, i + 1)

\* an options object that keeps its pageToken
optionsKept(pageToken) == pageToken

\* if ('pageToken' in options) delete options.pageToken
optionsCleared(pageToken) == NoRequest

\* a stream that takes every page as arriving while it flows
isPausedNever(flowing) == FALSE

\* stream.isPaused()
isPaused(flowing) == flowing = "paused"

\* callback(null, resources, next, apiResp) for the page with token t
callback(ps, t) ==
  LET page == PageOf(ps.script, t)
      next == NextOf(ps.script, t)
      resp == [ps EXCEPT !.ops = Append(@, [op |-> "response", page |-> t]),
                         !.seen = Append(@, [ev |-> "response", page |-> t])]
      done == pushResources(resp, page, t, 1)
  IN  IF done.ended
      THEN done
      ELSE IF next = NoRequest
      THEN [done EXCEPT !.ended = TRUE, !.ops = Append(@, [op |-> "end"])]
      ELSE LET cleared == [done EXCEPT !.pageToken = optionsCleared(@)]
           IN  IF isPaused(cleared.flowing)
               THEN [cleared EXCEPT !.request = next, !.started = FALSE]
               ELSE [cleared EXCEPT !.immediates = Append(@, next)]

InitPageStream ==
  /\ cfg = CHOOSE c \in Configs : TRUE
  /\ phase = "constructed"
  /\ isCancelCalled = FALSE
  /\ responseHasSent = FALSE
  /\ retries = 0
  /\ timeout = UNDEF
  /\ deadline = 0
  /\ now = 0
  /\ att = << >>
  /\ timers = {}
  /\ retryStream = "open"
  /\ consumer = << >>
  /\ calls = << >>
  /\ checkCalls = 0
  /\ cancelCalls = << >>
  /\ emitted = << >>
  /\ userCancelled = FALSE
  /\ terminations = << >>
  /\ written = << >>
  /\ legacy = LegacyIdle
  /\ apicall = CallIdle
  /\ iter = IterIdle
  /\ pstream \in { [PageStreamIdle EXCEPT !.created = TRUE, !.script = sc,
                                          !.maxResults = maxResultsOf(o.maxResults),
                                          !.pageToken = o.pageToken,
                                          !.firstPageToken = o.pageToken,
                                          !.request = FirstRequest] :
                     sc \in PageStreamScripts, o \in PageStreamOptions }
  /\ backoff = BackoffIdle
  /\ iam = IamIdle
  /\ pureIn = NoPure
  /\ pureOut = NoPure

\* the consumer attaches a 'data' listener or calls resume()
ConsumerResume ==
  /\ pstream.created
  /\ pstream.flowing # "flowing"
  /\ pstream' = [pstream EXCEPT !.flowing = "flowing", !.resumeScheduled = TRUE]
  /\ UNCHANGED << streamVars, directVars, pureVars, legacyVars, callVars,
                  iterVars, backoffVars, iamVars >>

\* the consumer calls pause()
ConsumerPause ==
  /\ pstream.created
  /\ pstream.flowing # "paused"
  /\ pstream' = [pstream EXCEPT !.flowing = "paused"]
  /\ UNCHANGED << streamVars, directVars, pureVars, legacyVars, callVars,
                  iterVars, backoffVars, iamVars >>

\* the read buffer of a flowing stream is delivered as 'data'
flow(ps) ==
  IF ps.flowing = "flowing"
  THEN [ps EXCEPT !.buffer = << >>,
                  !.seen = @ \o [i \in 1..Len(ps.buffer) |->
                                   [ev |-> "data", item |-> ps.buffer[i]]]]
  ELSE ps

\* the 'resume' event: stream.on('resume', ...), then the buffer flows
OnResume ==
  /\ pstream.resumeScheduled
  /\ LET ev == [pstream EXCEPT !.resumeScheduled = FALSE]
     IN  pstream' = IF ~ev.started
                    THEN flow(issue([ev EXCEPT !.started = TRUE], ev.request))
                    ELSE flow(ev)
  /\ UNCHANGED << streamVars, directVars, pureVars, legacyVars, callVars,
                  iterVars, backoffVars, iamVars >>

\* setImmediate(apiCall, next, options, callback) runs
OnImmediate ==
  /\ pstream.immediates # << >>
  /\ pstream' = issue([pstream EXCEPT !.immediates = Tail(@)],
                      Head(pstream.immediates))
  /\ UNCHANGED << streamVars, directVars, pureVars, legacyVars, callVars,
                  iterVars, backoffVars, iamVars >>

\* a page arrives
OnPage ==
  /\ pstream.inflight # << >>
  /\ pstream' = callback([pstream EXCEPT !.inflight = Tail(@)],
                         Head(pstream.inflight))
  /\ UNCHANGED << streamVars, directVars, pureVars, legacyVars, callVars,
                  iterVars, backoffVars, iamVars >>

\* a page request fails: callback(err)
OnPageError ==
  /\ pstream.inflight # << >>
  /\ pstream' = [pstream EXCEPT !.inflight = Tail(@),
                                !.ops = Append(@, [op |-> "error"]),
                                !.seen = Append(@, [ev |-> "error"])]
  /\ UNCHANGED << streamVars, directVars, pureVars, legacyVars, callVars,
                  iterVars, backoffVars, iamVars >>

\* the ended stream, read to its end, emits 'end'
EmitEnd ==
  /\ pstream.flowing = "flowing"
  /\ pstream.ended /\ pstream.buffer = << >> /\ ~pstream.endEmitted
  /\ pstream' = [pstream EXCEPT !.endEmitted = TRUE,
                                !.seen = Append(@, [ev |-> "end"])]
  /\ UNCHANGED << streamVars, directVars, pureVars, legacyVars, callVars,
                  iterVars, backoffVars, iamVars >>

NextPageStream ==
  \/ ConsumerResume
  \/ ConsumerPause
  \/ OnResume
  \/ OnImmediate
  \/ OnPage
  \/ OnPageError
  \/ EmitEnd

SpecPageStream == InitPageStream /\ [][NextPageStream]_vars

\* ----------------------------------------------------- the retry delay
\* The part of the error handler of newStreamingRetryRequest that draws the
\* wait of a retry and schedules it, for a call whose errors are all retryable
\* and within budget.  Math.random() * delay is a number in [0, delay); the
\* model draws its integer part.  Each run of the handler is recorded with the
\* value of its local delay when toSleep was drawn (bound), the wait drawn
\* (toSleep) and the value of delay after its timer fired.

\* retry.backoffSettings: initialRetryDelayMillis, retryDelayMultiplier,
\* maxRetryDelayMillis
BackoffSettingsChoices ==
  [ initialRetryDelayMillis : {1, 2},
    retryDelayMultiplier : {1, 2},
    maxRetryDelayMillis : {2, 4} ]

Min(a, b) == IF a <= b THEN a ELSE b

\* Math.random() * delay
random(delay) == 0..(delay - 1)

\* let delay = retry.backoffSettings.initialRetryDelayMillis
initialDelay(b) == b.settings.initialRetryDelayMillis

\* delay = Math.min(delay * delayMult, maxDelay)
nextDelay(b, delay) ==
  Min(delay * b.settings.retryDelayMultiplier, b.settings.maxRetryDelayMillis)

InitBackoff ==
  /\ cfg = CHOOSE c \in Configs : TRUE
  /\ phase = "constructed"
  /\ isCancelCalled = FALSE
  /\ responseHasSent = FALSE
  /\ retries = 0
  /\ timeout = UNDEF
  /\ deadline = 0
  /\ now = 0
  /\ att = << >>
  /\ timers = {}
  /\ retryStream = "open"
  /\ consumer = << >>
  /\ calls = << >>
  /\ checkCalls = 0
  /\ cancelCalls = << >>
  /\ emitted = << >>
  /\ userCancelled = FALSE
  /\ terminations = << >>
  /\ written = << >>
  /\ legacy = LegacyIdle
  /\ apicall = CallIdle
  /\ iter = IterIdle
  /\ pstream = PageStreamIdle
  /\ backoff \in {[BackoffIdle EXCEPT !.pc = "attempt", !.settings = st] :
                    st \in BackoffSettingsChoices}
  /\ iam = IamIdle
  /\ pureIn = NoPure
  /\ pureOut = NoPure

\* requestStream.on('error'), retryable and within budget: the delay is
\* initialised, the wait is drawn and the timer is set
BackoffOnError ==
  /\ backoff.pc = "attempt"
  /\ Len(backoff.handlers) < MaxAttempts
  /\ LET delay == initialDelay(backoff)
     IN  \E toSleep \in random(delay) :
           backoff' = [backoff EXCEPT
                         !.pc = "timer",
                         !.handlers = Append(@, [bound |-> delay, toSleep |-> toSleep,
                                                 delay |-> delay])]
  /\ UNCHANGED << streamVars, directVars, pureVars, legacyVars, callVars, iterVars, pageStreamVars, iamVars >>

\* the setTimeout callback: with a truthy timeout the delay is multiplied;
\* the next request is made
BackoffOnTimer(timeoutSet) ==
  /\ backoff.pc = "timer"
  /\ LET n == Len(backoff.handlers)
     IN  backoff' = [backoff EXCEPT
                       !.pc = "attempt",
                       !.handlers[n].delay =
                          IF timeoutSet THEN nextDelay(backoff, @) ELSE @]
  /\ UNCHANGED << streamVars, directVars, pureVars, legacyVars, callVars, iterVars, pageStreamVars, iamVars >>

NextBackoff ==
  \/ BackoffOnError
  \/ \E timeoutSet \in BOOLEAN : BackoffOnTimer(timeoutSet)

SpecBackoff == InitBackoff /\ [][NextBackoff]_vars

\* ------------------------------------------------------- the IAM client
\* One IamClient.  iamPolicyStub is the promise gaxGrpc.createStub returns:
\* "undefined" before initialize(), then "pending" until it is "resolved" or
\* "rejected".  The callbacks registered on it with then() run one at a time
\* after it has settled, those of close() in the order of the close() calls.
\* An API method of the client calls innerApiCalls[method], the function
\* createApiCall made from innerCallPromise, which invokes the function that
\* promise resolves to.  The model records every promise initialize()
\* returned (by the number of the createStub call that made it), every value
\* _terminated had when it was assigned, and every invocation of a stub
\* method and of stub.close().
MsgClosed == "The client has already been closed."

\* const iamPolicyStubMethods
iamPolicyStubMethods == {"getIamPolicy", "setIamPolicy", "testIamPermissions"}

\* initialize()
initialize(i) ==
  LET made == IF i.iamPolicyStub # "undefined" THEN i
              ELSE [i EXCEPT !.iamPolicyStub = "pending", !.createStubCalls = @ + 1]
  IN  [made EXCEPT !.initialized = Append(@, made.createStubCalls)]

\* an inner call that does not look at the flag
innerCallUnchecked(i, method) == [outcome |-> "invoked", reason |-> ""]

\* the function innerCallPromise resolves to
innerCall(i, method) ==
  IF i.terminated
  THEN [outcome |-> "rejected", reason |-> MsgClosed]
  ELSE [outcome |-> "invoked", reason |-> ""]

\* a close() call has resolved
Closed(i) == \E k \in 1..Len(i.closes) : i.closes[k].pc = "resolved"

InitIam ==
  /\ cfg = CHOOSE c \in Configs : TRUE
  /\ phase = "constructed"
  /\ isCancelCalled = FALSE
  /\ responseHasSent = FALSE
  /\ retries = 0
  /\ timeout = UNDEF
  /\ deadline = 0
  /\ now = 0
  /\ att = << >>
  /\ timers = {}
  /\ retryStream = "open"
  /\ consumer = << >>
  /\ calls = << >>
  /\ checkCalls = 0
  /\ cancelCalls = << >>
  /\ emitted = << >>
  /\ userCancelled = FALSE
  /\ terminations = << >>
  /\ written = << >>
  /\ legacy = LegacyIdle
  /\ apicall = CallIdle
  /\ iter = IterIdle
  /\ pstream = PageStreamIdle
  /\ backoff = BackoffIdle
  /\ iam = [IamIdle EXCEPT !.constructed = TRUE]
  /\ pureIn = NoPure
  /\ pureOut = NoPure

\* initialize() is called by the user
IamInitialize ==
  /\ iam.constructed
  /\ iam.explicit < MaxInit
  /\ iam' = [initialize(iam) EXCEPT !.explicit = @ + 1]
  /\ UNCHANGED << streamVars, directVars, pureVars, legacyVars, callVars, iterVars, pageStreamVars, backoffVars >>

\* the promise of createStub settles
IamStubSettle(ok) ==
  /\ iam.iamPolicyStub = "pending"
  /\ iam' = [iam EXCEPT !.iamPolicyStub = IF ok THEN "resolved" ELSE "rejected"]
  /\ UNCHANGED << streamVars, directVars, pureVars, legacyVars, callVars, iterVars, pageStreamVars, backoffVars >>

\* close() is called
IamClose ==
  /\ iam.constructed
  /\ Len(iam.closes) < MaxClose
  /\ LET i == initialize(iam)
     IN  iam' = [i EXCEPT !.closes =
                   Append(@, [pc |-> IF ~i.terminated THEN "then" ELSE "resolved"])]
  /\ UNCHANGED << streamVars, directVars, pureVars, legacyVars, callVars, iterVars, pageStreamVars, backoffVars >>

\* the callback close() registered runs, or its promise is rejected with the
\* stub's
IamCloseThen(k) ==
  /\ k \in 1..Len(iam.closes)
  /\ iam.closes[k].pc = "then"
  /\ \A j \in 1..(k - 1) : iam.closes[j].pc # "then"
  /\ iam.iamPolicyStub \in {"resolved", "rejected"}
  /\ iam' = IF iam.iamPolicyStub = "resolved"
            THEN [iam EXCEPT !.assigned = Append(@, iam.terminated),
                             !.terminated = TRUE,
                             !.stubCloseCalls = @ + 1,
                             !.closes[k].pc = "resolved"]
            ELSE [iam EXCEPT !.closes[k].pc = "rejected"]
  /\ UNCHANGED << streamVars, directVars, pureVars, legacyVars, callVars, iterVars, pageStreamVars, backoffVars >>

\* an API method of the client is called; before initialize() there is no
\* inner call to invoke
IamCall(method) ==
  /\ iam.constructed
  /\ Len(iam.calls) < MaxCall
  /\ iam' = [iam EXCEPT !.calls =
               Append(@, [method |-> method,
                          pc |-> IF iam.iamPolicyStub = "undefined"
                                 THEN "notAFunction" ELSE "waiting",
                          reason |-> "",
                          closed |-> Closed(iam)])]
  /\ UNCHANGED << streamVars, directVars, pureVars, legacyVars, callVars, iterVars, pageStreamVars, backoffVars >>

\* the function of innerCallPromise is invoked for a waiting call
IamCallRun(j) ==
  /\ j \in 1..Len(iam.calls)
  /\ iam.calls[j].pc = "waiting"
  /\ iam.iamPolicyStub \in {"resolved", "rejected"}
  /\ iam' = IF iam.iamPolicyStub = "rejected"
            THEN [iam EXCEPT !.calls[j].pc = "threw"]
            ELSE LET r == innerCall(iam, iam.calls[j].method)
                 IN  [iam EXCEPT !.calls[j].pc = r.outcome,
                                 !.calls[j].reason = r.reason,
                                 !.stubCalls = IF r.outcome = "invoked"
                                               THEN Append(@, [call |-> j,
                                                               method |-> iam.calls[j].method])
                                               ELSE @]
  /\ UNCHANGED << streamVars, directVars, pureVars, legacyVars, callVars, iterVars, pageStreamVars, backoffVars >>

NextIam ==
  \/ IamInitialize
  \/ \E ok \in BOOLEAN : IamStubSettle(ok)
  \/ IamClose
  \/ \E k \in 1..MaxClose : IamCloseThen(k)
  \/ \E method \in iamPolicyStubMethods : IamCall(method)
  \/ \E j \in 1..MaxCall : IamCallRun(j)

SpecIam == InitIam /\ [][NextIam]_vars

\* ------------------------------------------ classification, as a function
\* the policies and error codes shouldRetryRequest is applied to
ClassifyCodes == {INVALID_ARGUMENT, NOT_FOUND, UNAVAILABLE}

ClassifyPolicies ==
  [ retryCodes : {<< >>} \cup {<<a>> : a \in ClassifyCodes}
                 \cup {<<a, b>> : a \in ClassifyCodes, b \in ClassifyCodes},
    shouldRetryFn : {NoFn} \cup [present : {TRUE}, accepts : SUBSET ClassifyCodes] ]

InitClassify ==
  /\ cfg = CHOOSE c \in Configs : TRUE
  /\ phase = "constructed"
  /\ isCancelCalled = FALSE
  /\ responseHasSent = FALSE
  /\ retries = 0
  /\ timeout = UNDEF
  /\ deadline = 0
  /\ now = 0
  /\ att = << >>
  /\ timers = {}
  /\ retryStream = "open"
  /\ consumer = << >>
  /\ calls = << >>
  /\ checkCalls = 0
  /\ cancelCalls = << >>
  /\ emitted = << >>
  /\ userCancelled = FALSE
  /\ terminations = << >>
  /\ written = << >>
  /\ legacy = LegacyIdle
  /\ apicall = CallIdle
  /\ iter = IterIdle
  /\ pstream = PageStreamIdle
  /\ backoff = BackoffIdle
  /\ iam = IamIdle
  /\ pureIn \in [fn : {"shouldRetryRequest"}, code : ClassifyCodes, retry : ClassifyPolicies]
  /\ pureOut = NoPure

\* StreamProxy.shouldRetryRequest(error, retry)
Classify ==
  /\ pureIn.fn = "shouldRetryRequest"
  /\ pureOut = NoPure
  /\ pureOut' = [fn |-> "shouldRetryRequest",
                 result |-> shouldRetryRequest(pureIn.code, pureIn.retry)]
  /\ UNCHANGED pureIn
  /\ UNCHANGED << streamVars, directVars, legacyVars, callVars, iterVars, pageStreamVars, backoffVars, iamVars >>

NextClassify == Classify

SpecClassify == InitClassify /\ [][NextClassify]_vars

\* ================================================================= claims
\* the claims' vocabulary, stated without the operators of the code
Range(seq) == {seq[i] : i \in 1..Len(seq)}

\* an error of code c is retryable under the policy of the call
Retryable(c) ==
  \/ cfg.shouldRetryFn.present /\ c \in cfg.shouldRetryFn.accepts
  \/ ~cfg.shouldRetryFn.present /\ c \in Range(cfg.retryCodes)

ErrorEvents == {i \in DOMAIN consumer : consumer[i].ev = "error"}

EndEvents == {i \in DOMAIN consumer : consumer[i].ev = "end"}

DataEvents == SelectSeq(consumer, LAMBDA e : e.ev = "data")

\* attempt k failed and a retry was scheduled or started for it
Retried(k) == att[k].enteredError /\ (k \in timers \/ k < Len(att))

\* attempt k completed normally
Completed(k) == att[k].dataEnd /\ att[k].statusReceived /\ ~att[k].enteredError

OnlyMaxRetries == cfg.maxRetries >= 1 /\ ~Truthy(cfg.totalTimeoutMillis)

C2_DataResetsBudget ==
  /\ (att # << >> /\ att[Len(att)].nData > 0) => retries = 0
  /\ OnlyMaxRetries =>
       /\ \A i \in ErrorEvents :
            consumer[i].error.msg = MsgExceeded =>
              att[consumer[i].error.quoted].nData = 0
       /\ \A k \in 1..Len(att) :
            (att[k].nData > 0 /\ att[k].enteredError /\ Retryable(att[k].err))
              => Retried(k)

\* C2 witness: with maxRetries = 1, a second attempt in a row delivered data,
\* failed and was retried
C2_Witness ==
  /\ cfg.maxRetries = 1 /\ ~Truthy(cfg.totalTimeoutMillis)
  /\ Len(att) >= 2
  /\ att[1].nData > 0 /\ att[2].nData > 0
  /\ Retried(1) /\ Retried(2)

\* C3: with only maxRetries = N >= 1 configured and no data ever delivered,
\* StubCall and the exceeded-check are each invoked at most N+1 times; when
\* the (N+1)-th attempt has failed with a retryable error the consumer has a
\* single error, of code 4, whose message begins 'Exceeded maximum number of
\* retries' and quotes that attempt's error, both counts are exactly N+1 and
\* no retry is pending.
C3_MaxRetriesExceeded ==
  (cfg.maxRetries >= 1 /\ cfg.totalTimeoutMillis = UNDEF /\ emitted = << >>) =>
    /\ Len(calls) <= cfg.maxRetries + 1
    /\ checkCalls <= cfg.maxRetries + 1
    /\ \A i \in ErrorEvents :
         consumer[i].error.msg = MsgExceeded =>
           /\ consumer[i].error.code = DEADLINE_EXCEEDED
           /\ consumer[i].error.quoted = Len(att)
           /\ Len(calls) = cfg.maxRetries + 1
           /\ checkCalls = cfg.maxRetries + 1
           /\ timers = {}
           /\ ErrorEvents = {i}
    /\ (Len(att) = cfg.maxRetries + 1 /\ att[Len(att)].enteredError
        /\ Retryable(att[Len(att)].err)) =>
         \E i \in ErrorEvents : consumer[i].error.msg = MsgExceeded

\* C3 witness: maxRetries = 2, three attempts failed without data and the
\* consumer has the exceeded error
C3_Witness ==
  /\ cfg.maxRetries = 2 /\ cfg.totalTimeoutMillis = UNDEF /\ emitted = << >>
  /\ Len(calls) = 3
  /\ \E i \in ErrorEvents : consumer[i].error.msg = MsgExceeded

\* C4: with only totalTimeoutMillis = T > 0 configured the deadline is the
\* creation time plus T; a failure with a retryable error is retried when it
\* is observed before the deadline, and the synthesized error 'Total timeout
\* of API exceeded T milliseconds' (code 4, quoting the original error) ends
\* the stream, with no retry pending, only for an error observed at or after
\* the deadline.
C4_TotalTimeoutDeadline ==
  (cfg.maxRetries = UNDEF /\ Truthy(cfg.totalTimeoutMillis) /\ phase = "streaming") =>
    /\ deadline = cfg.totalTimeoutMillis
    /\ \A i \in ErrorEvents :
         consumer[i].error.msg = MsgTotalTimeout =>
           /\ now >= deadline
           /\ consumer[i].error.code = DEADLINE_EXCEEDED
           /\ consumer[i].error.ms = cfg.totalTimeoutMillis
           /\ consumer[i].error.quoted = Len(att)
           /\ timers = {}
    /\ \A k \in 1..Len(att) :
         (att[k].enteredError /\ Retryable(att[k].err)) =>
           \/ Retried(k)
           \/ \E i \in ErrorEvents : consumer[i].error.msg = MsgTotalTimeout

\* C5: an upstream error the policy does not classify as retryable is
\* terminal on whichever attempt it occurs: the consumer's only error event is
\* that error object with the note 'Exception occurred in retry method that
\* was not classified as transient', the exceeded-check has run only for the
\* earlier, retried failures, no retry is pending and no later attempt exists.
C5_NonRetryableIsTerminal ==
  \A k \in 1..Len(att) :
    (att[k].enteredError /\ ~Retryable(att[k].err)) =>
      /\ k = Len(att)
      /\ timers = {}
      /\ retryStream = "destroyed"
      /\ checkCalls = k - 1
      /\ Len(calls) = k
      /\ \E i \in ErrorEvents :
           /\ ErrorEvents = {i}
           /\ consumer[i].error.src = k
           /\ consumer[i].error.code = att[k].err
           /\ consumer[i].error.note = NoteTransient

\* C5 witness: a second attempt failed with a non-retryable error after the
\* first was retried
C5_Witness ==
  /\ Len(att) = 2
  /\ att[2].enteredError /\ ~Retryable(att[2].err)
  /\ \E i \in ErrorEvents : consumer[i].error.note = NoteTransient

\* C6: when neither maxRetries nor totalTimeoutMillis is configured every
\* upstream error is terminal: the consumer receives it with the note 'not
\* classified as transient' and StubCall is never invoked a second time.
C6_NoBudgetIsTerminal ==
  (cfg.maxRetries = UNDEF /\ cfg.totalTimeoutMillis = UNDEF) =>
    /\ Len(calls) <= 1
    /\ timers = {}
    /\ \A k \in 1..Len(att) :
         att[k].enteredError =>
           \E i \in ErrorEvents :
             consumer[i].error.src = k /\ consumer[i].error.note = NoteTransient

\* C7: when both maxRetries and totalTimeoutMillis are configured, a failure
\* with a retryable error gives the consumer the INVALID_ARGUMENT error
\* 'Cannot set both totalTimeoutMillis and maxRetries in backoffSettings.',
\* destroys the failed upstream stream and is not retried.
C7_BothBudgetsRejected ==
  (cfg.maxRetries # UNDEF /\ cfg.totalTimeoutMillis # UNDEF) =>
    \A k \in 1..Len(att) :
      (att[k].enteredError /\ Retryable(att[k].err)) =>
        /\ \E i \in ErrorEvents :
             /\ consumer[i].error.code = INVALID_ARGUMENT
             /\ consumer[i].error.msg = MsgBoth
        /\ att[k].destroyed
        /\ ~Retried(k)

\* C8: the first attempt is invoked with the original argument and every
\* retry attempt with getResumptionRequestFn(original argument) when a
\* resumption function is configured, with the original argument otherwise.
C8_RequestDerivation ==
  \A i \in 1..Len(calls) :
    calls[i] = IF i > 1 /\ cfg.getResumptionRequestFn
               THEN ResumeFn(Argument)
               ELSE Argument

\* C8 witness: a second retry was issued with a resumption function configured
C8_Witness == Len(calls) = 3 /\ cfg.getResumptionRequestFn

\* C9: shouldRetryRequest(e, policy) is true iff shouldRetryFn is present and
\* accepts e, or shouldRetryFn is absent, retryCodes is non-empty and e.code
\* is one of retryCodes.
C9_Classification ==
  pureOut.fn = "shouldRetryRequest" =>
    ( pureOut.result <=>
        \/ pureIn.retry.shouldRetryFn.present
           /\ pureIn.code \in pureIn.retry.shouldRetryFn.accepts
        \/ ~pureIn.retry.shouldRetryFn.present
           /\ pureIn.retry.retryCodes # << >>
           /\ pureIn.code \in Range(pureIn.retry.retryCodes) )

\* C9 witness: a present predicate rejected an error whose code is among the
\* retry codes
C9_Witness ==
  /\ pureOut.fn = "shouldRetryRequest"
  /\ pureIn.retry.shouldRetryFn.present
  /\ pureIn.code \in Range(pureIn.retry.retryCodes)
  /\ ~pureOut.result

\* C10: if the consumer calls cancel() while a retry is pending, no StubCall
\* is issued when the timer fires; and a cancel() made after setStream invokes
\* cancel() of the request stream created last.
C10_CancelStopsPendingRetry ==
  /\ \A i \in DOMAIN cancelCalls :
       cancelCalls[i].pending => Len(calls) = cancelCalls[i].att
  /\ (userCancelled /\ ~isCancelCalled) => Len(cancelCalls) = 1

\* C11: after the consumer has called cancel() on a live attempt, the error
\* with which that attempt responds reaches the consumer as the terminal
\* error (the same error object), no data is delivered after the cancel, and
\* the error is never retried, whatever the policy says about its code.
C11_CancelErrorIsTerminal ==
  \A i \in DOMAIN cancelCalls :
    LET k == cancelCalls[i].att
    IN  (~cancelCalls[i].pending /\ att[k].err = CANCELLED) =>
          /\ ~Retried(k)
          /\ \E j \in ErrorEvents :
               consumer[j].error.src = k /\ consumer[j].error.code = CANCELLED
          /\ Len(emitted) = cancelCalls[i].delivered

C13_FailedAttemptIsSilent ==
  /\ \A i \in DOMAIN consumer :
       consumer[i].ev = "status" => ~Retried(consumer[i].att)
  /\ \A i \in DOMAIN consumer :
       (consumer[i].ev = "response" /\ ~consumer[i].md) => ~Retried(consumer[i].att)
  /\ \A i, j \in DOMAIN consumer :
       (i < j /\ consumer[i].ev = "data" /\ consumer[j].ev = "data") =>
         consumer[i].att <= consumer[j].att

ResponseEvents == {i \in DOMAIN consumer : consumer[i].ev = "response"}

\* C14: when the stream has ended successfully the consumer has observed
\* exactly one response event in total, whether metadata and status both
\* arrived in one attempt or the stream spanned several attempts.
C14_ExactlyOneResponse ==
  retryStream = "ended" => Cardinality(ResponseEvents) = 1

StatusEvents == {i \in DOMAIN consumer : consumer[i].ev = "status"}

DataIndexes == {i \in DOMAIN consumer : consumer[i].ev = "data"}

\* C15: for a stream that has ended successfully, the consumer observed a
\* response before its first data event, every status event after all data
\* events, and end after a status event.
C15_ConsumerEventOrder ==
  retryStream = "ended" =>
    /\ \A d \in DataIndexes : \E r \in ResponseEvents : r < d
    /\ \A d \in DataIndexes : \A t \in StatusEvents : d < t
    /\ \A e \in EndEvents : \E t \in StatusEvents : t < e

\* C16: a response synthesized from a metadata event is
\* {code: 200, message: 'OK', details: '', metadata: M} with M the metadata
\* the upstream emitted; a response synthesized from a status event is
\* {code: 200, message: 'OK', details: ''} with no metadata field; in the new
\* retry engine and outside it.
C16_ResponseContent ==
  \A i \in ResponseEvents :
    LET r == consumer[i].response
    IN  /\ r.code = 200 /\ r.message = "OK" /\ r.details = ""
        /\ IF consumer[i].md
           THEN /\ DOMAIN r = {"code", "message", "details", "metadata"}
                /\ i > 1 /\ consumer[i - 1].ev = "metadata"
                /\ r.metadata = consumer[i - 1].metadata
           ELSE /\ DOMAIN r = {"code", "message", "details"}
                /\ i > 1 /\ consumer[i - 1].ev = "status"

\* outside the retry engine an upstream that emitted no metadata has emitted
\* a status carrying metadata of its own, and the response was synthesized
C16_Witness ==
  /\ LegacyMode(cfg)
  /\ \E i \in ResponseEvents :
       /\ ~consumer[i].md
       /\ consumer[i - 1].ev = "status"
       /\ "metadata" \in DOMAIN consumer[i - 1].status

\* C17: retryStream.end() has been called, and the consumer has seen end,
\* exactly when one and the same attempt has produced both end and status;
\* an attempt that entered error handling never counts as having ended, so
\* its late end and late status do not end the consumer stream.
C17_EndNeedsEndAndStatus ==
  /\ ("end" \in Range(terminations)) <=> (\E k \in 1..Len(att) : Completed(k))
  /\ EndEvents # {} => \E k \in 1..Len(att) : Completed(k)
  /\ \A k \in 1..Len(att) : att[k].enteredError => ~att[k].dataEnd
  /\ \A k \in 1..Len(att) :
       (att[k].dataEnd /\ ~att[k].statusReceived) => retryStream # "ended"

\* the stream ended on the second attempt although the first, failed attempt
\* had delivered its status
C17_Witness ==
  /\ Len(att) = 2
  /\ att[1].enteredError /\ att[1].statusReceived
  /\ Completed(2)
  /\ retryStream = "ended"
  /\ EndEvents # {}

\* C18: no upstream error is dropped.  In the retry engine every attempt that
\* raised an error was retried or the consumer has an error event; in the
\* legacy retry helper every request stream that raised an error caused a new
\* request or an error event on the returned stream.
C18_NoErrorDropped ==
  /\ \A k \in 1..Len(att) :
       att[k].enteredError => (Retried(k) \/ ErrorEvents # {})
  /\ \A k \in 1..Len(legacy.requests) :
       legacy.requests[k].erred =>
         \/ \E j \in 1..Len(legacy.requests) : legacy.requests[j].cause = k
         \/ \E i \in 1..Len(legacy.out) :
              legacy.out[i].ev = "error" /\ legacy.out[i].src = k


RestCall == cfg.type = "SERVER_STREAMING" /\ cfg.rest

\* C19: in REST server streaming, setStream invokes StubCall exactly once
\* with the caller's argument and makes that upstream stream the readable
\* side; an upstream error reaches the consumer unchanged, and no second
\* call, retry check or backoff timer ever happens, whatever the retry
\* options and the gaxServerStreamingRetries flag are.
C19_RestPassThrough ==
  RestCall =>
    /\ Len(calls) <= 1 /\ Len(att) <= 1
    /\ timers = {} /\ checkCalls = 0 /\ retries = 0
    /\ phase # "constructed" =>
         /\ phase = "direct"
         /\ calls = << Argument >>
         /\ Len(att) = 1 /\ att[1].readable
    /\ \A k \in 1..Len(att) :
         att[k].enteredError =>
           /\ ErrorEvents # {}
           /\ \A i \in ErrorEvents : consumer[i].error = UpstreamError(k, att[k].err)

\* a REST call with the retry flag set and a retryable error: the consumer
\* has the error and there is still one call
C19_Witness ==
  /\ RestCall /\ cfg.gaxServerStreamingRetries
  /\ phase = "direct" /\ Len(calls) = 1
  /\ att[1].enteredError /\ att[1].err = UNAVAILABLE
  /\ att[1].nData > 0
  /\ ErrorEvents # {}

WritingCall == cfg.type \in {"CLIENT_STREAMING", "BIDI_STREAMING"}

EventsOf(name) == {i \in DOMAIN consumer : consumer[i].ev = name}

\* C20: a client-streaming or bidi-streaming call makes exactly one upstream
\* attempt whatever the retry settings are: setStream invokes StubCall once
\* with the caller's argument, the metadata and status of that stream and a
\* response reach the consumer, the stream is the writable side and, for
\* bidi only, the readable side, and a cancel() of the proxy is a cancel()
\* of that stream.
C20_SingleAttemptDuplex ==
  WritingCall =>
    /\ Len(calls) <= 1 /\ Len(att) <= 1
    /\ timers = {} /\ checkCalls = 0 /\ retries = 0
    /\ phase # "constructed" =>
         /\ phase = "direct"
         /\ calls = << Argument >>
         /\ Len(att) = 1 /\ att[1].writable
         /\ att[1].readable <=> cfg.type = "BIDI_STREAMING"
         /\ att[1].md =>
              \E i \in EventsOf("metadata") : consumer[i].metadata = MetadataOf(1)
         /\ att[1].statusReceived =>
              \E i \in EventsOf("status") : consumer[i].status = StatusOf(1)
         /\ att[1].md \/ att[1].statusReceived => Cardinality(ResponseEvents) = 1
         /\ userCancelled =>
              \E i \in DOMAIN cancelCalls : cancelCalls[i].att = 1
    /\ written # << >> => phase = "direct"

\* a bidi call with a retrying policy that received metadata, data and
\* status, was written to, and was cancelled
C20_Witness ==
  /\ cfg.type = "BIDI_STREAMING" /\ cfg.gaxServerStreamingRetries
  /\ phase = "direct" /\ Len(calls) = 1
  /\ att[1].md /\ att[1].statusReceived /\ att[1].nData > 0
  /\ written # << >>
  /\ userCancelled /\ cancelCalls # << >>

ZeroRetries ==
  NewRetryMode(cfg) /\ cfg.maxRetries = 0 /\ cfg.totalTimeoutMillis = UNDEF

\* C21: in the new retry mode with maxRetries = 0 and no total timeout,
\* StubCall is invoked at most once and no retry is ever scheduled; when the
\* attempt has failed with a retryable error the consumer has exactly one
\* error, which is that attempt's own error (same code and message, not a
\* synthesized one) carrying the note 'Max retries is set to zero.'.
C21_ZeroRetriesIsTerminal ==
  ZeroRetries =>
    /\ Len(calls) <= 1 /\ timers = {}
    /\ (att # << >> /\ att[1].enteredError /\ Retryable(att[1].err)) =>
         /\ Cardinality(ErrorEvents) = 1
         /\ \A i \in ErrorEvents :
              consumer[i].error =
                [UpstreamError(1, att[1].err) EXCEPT !.note = NoteZero]
         /\ Len(calls) = 1

\* the single attempt delivered data and then failed with a retryable error
C21_Witness ==
  /\ ZeroRetries
  /\ att # << >> /\ att[1].enteredError /\ Retryable(att[1].err)
  /\ att[1].nData > 0
  /\ ErrorEvents # {}

ResumptionWithoutEngine ==
  /\ ~apicall.gaxStreamingRetries
  /\ apicall.options.retry.present
  /\ apicall.options.retry.getResumptionRequestFn
  /\ ~apicall.options.retryRequestOptions.present

\* C22: a call whose retry options carry a resumption function while
\* gaxStreamingRetries is disabled is never handed to setStream: StubCall is
\* not invoked (so the resumption function is applied to no request), and
\* once the call step has run the consumer has exactly one error, with the
\* message 'getResumptionRequestFn can only be used when gaxStreamingRetries
\* is set to true.'.
C22_ResumptionNeedsEngine ==
  ResumptionWithoutEngine =>
    /\ apicall.stage \in {"idle", "merged", "failed"}
    /\ apicall.stubCalls = << >>
    /\ apicall.callSteps >= 1 =>
         apicall.stage = "failed" /\ apicall.errors = << MsgResumption >>

C22_Witness ==
  /\ ResumptionWithoutEngine
  /\ apicall.stage = "failed"
  /\ apicall.errors = << MsgResumption >>

BothOptions ==
  apicall.options.retry.present /\ apicall.options.retryRequestOptions.present

\* C23: a call made with both retry and retryRequestOptions stops in the
\* settings merge with 'Only one of retry or retryRequestOptions may be set':
\* the call step never runs, StubCall is never invoked and the consumer
\* stream gets no event.
C23_OnlyOneOfRetryOptions ==
  BothOptions =>
    /\ apicall.stage \in {"idle", "threw"}
    /\ apicall.stage = "threw" => apicall.thrown = MsgOnlyOne
    /\ apicall.callSteps = 0
    /\ apicall.stubCalls = << >>
    /\ apicall.errors = << >>

C23_Witness ==
  /\ BothOptions /\ apicall.gaxStreamingRetries
  /\ apicall.stage = "threw" /\ apicall.thrown = MsgOnlyOne

Converted ==
  /\ apicall.gaxStreamingRetries
  /\ apicall.options.retryRequestOptions.present
  /\ ~apicall.options.retry.present
  /\ apicall.stage \in {"merged", "failed", "dispatched"}

\* C24: with the new retry engine, the settings merged from
\* retryRequestOptions have retry options with no retry codes, the given
\* shouldRetryFn, maxRetryDelayMillis = maxRetryDelay * 1000 and the given
\* retryDelayMultiplier (0 included); when retries is given (0 included)
\* maxRetries is retries and totalTimeoutMillis is undefined, otherwise
\* totalTimeoutMillis is totalTimeout * 1000 (0 included) and maxRetries is
\* undefined; never both budgets; and no retryRequestOptions remain.
C24_LegacyOptionsBridge ==
  Converted =>
    LET o == apicall.options.retryRequestOptions
        r == apicall.settings.retry
        b == apicall.settings.retry.backoffSettings
    IN  /\ r.present
        /\ r.retryCodes = << >>
        /\ r.shouldRetryFn = o.shouldRetryFn
        /\ b.maxRetryDelayMillis = o.maxRetryDelay * 1000
        /\ b.retryDelayMultiplier = o.retryDelayMultiplier
        /\ o.retries # UNDEF =>
             b.maxRetries = o.retries /\ b.totalTimeoutMillis = UNDEF
        /\ o.retries = UNDEF =>
             b.totalTimeoutMillis = o.totalTimeout * 1000 /\ b.maxRetries = UNDEF
        /\ b.maxRetries = UNDEF \/ b.totalTimeoutMillis = UNDEF
        /\ ~apicall.settings.retryRequestOptions.present

\* retries = 0 and a multiplier of 0 were converted and the call dispatched
C24_Witness ==
  /\ Converted
  /\ apicall.options.retryRequestOptions.retries = 0
  /\ apicall.options.retryRequestOptions.retryDelayMultiplier = 0
  /\ apicall.settings.retry.backoffSettings.maxRetries = 0
  /\ apicall.stage = "dispatched"

LastResult == iter.results[Len(iter.results)]

\* C25: one next() call issues at most 11 page requests; when 11 pages in a
\* row came back empty with a next-page request, the call stops polling and
\* resolves {done: true, value: undefined}; and a next() that resolves done
\* while a next-page request exists has issued exactly 11 requests, all
\* answered with empty pages.
C25_EmptyPageGuard ==
  /\ iter.polled <= 11
  /\ iter.attempts <= 11
  /\ iter.attempts = 11 =>
       /\ iter.polled = 11
       /\ iter.pc \in {"break", "idle"}
       /\ iter.pc = "idle" => LastResult = [done |-> TRUE, value |-> UNDEF]
  /\ (iter.pc = "idle" /\ iter.results # << >> /\ LastResult.done
      /\ iter.nextPageRequest # NoRequest) =>
       iter.polled = 11 /\ iter.attempts = 11

\* the first next() polled through 11 empty pages and resolved done
C25_Witness ==
  /\ iter.pc = "idle"
  /\ iter.results = << [done |-> TRUE, value |-> UNDEF] >>
  /\ Len(iter.requests) = 11
  /\ iter.nextPageRequest # NoRequest

\* the resources of page t as the claim lists them: the elements of an array
\* in order, or the entries of a map as pairs
ExpectedItems(sc, t) ==
  LET pg == IF t <= Len(sc.pages) THEN sc.pages[t] ELSE [map |-> FALSE, items |-> << >>]
  IN  [i \in 1..Len(pg.items) |->
         [shape |-> IF pg.map THEN "pair"
                    ELSE IF pg.items[i] = "null" THEN "null" ELSE "value",
          page |-> t, idx |-> i]]

RECURSIVE ExpectedUpTo(_, _)
ExpectedUpTo(sc, n) ==
  IF n = 0 THEN << >> ELSE ExpectedUpTo(sc, n - 1) \o ExpectedItems(sc, n)

\* the values the iterator has yielded so far
Yielded ==
  LET vals == SelectSeq(iter.results, LAMBDA r : ~r.done)
  IN  [i \in 1..Len(vals) |-> vals[i].value]

\* page requests that have been answered
Answered == Len(iter.requests) - (IF iter.pc = "await" THEN 1 ELSE 0)

\* C30: the values yielded by successive next() calls, followed by what is
\* still cached, are exactly the resources of the pages fetched so far, in
\* page order and within-page order, each once, a map page giving its
\* entries as pairs; a page is requested only while the cache is empty; the
\* first request is the caller's and each later one is the next-page request
\* of the page before; and next() resolves done only with an empty cache and
\* either no next-page request or the empty-page guard fired.
C30_IterationSequence ==
  /\ Yielded \o iter.cache = ExpectedUpTo(iter.script, Answered)
  /\ iter.pc = "await" => iter.cache = << >>
  /\ \A i \in 1..Len(iter.requests) :
       iter.requests[i] =
         IF i = 1 THEN FirstRequest
         ELSE IF i - 1 < Len(iter.script.pages) \/ iter.script.tail = "empty"
              THEN iter.requests[i - 1] + 1 ELSE NoRequest
  /\ \A i \in 1..Len(iter.requests) : iter.requests[i] # NoRequest
  /\ (iter.pc = "idle" /\ iter.results # << >> /\ LastResult.done) =>
       /\ iter.cache = << >>
       /\ iter.nextPageRequest = NoRequest \/ iter.attempts = 11
  /\ (iter.pc = "idle" /\ iter.results # << >> /\ ~LastResult.done) =>
       LastResult.value = Yielded[Len(Yielded)]

\* two pages, one of them a map, were iterated to the end
C30_Witness ==
  /\ iter.pc = "idle"
  /\ Len(iter.requests) = 2 /\ iter.nextPageRequest = NoRequest
  /\ Len(Yielded) = 3
  /\ \E i \in 1..Len(Yielded) : Yielded[i].shape = "pair"
  /\ \E i \in 1..Len(Yielded) : Yielded[i].shape = "value"
  /\ LastResult.done

\* the non-null resources of the whole script, in page and array order
NonNullResources ==
  SelectSeq(ExpectedUpTo(pstream.script, Len(pstream.script.pages)),
            LAMBDA e : e.shape # "null")

FirstOf(seq, n) == SubSeq(seq, 1, IF n <= Len(seq) THEN n ELSE Len(seq))

\* the items of the stream's 'data' events, and of its push() calls
DataSeen ==
  LET d == SelectSeq(pstream.seen, LAMBDA e : e.ev = "data")
  IN  [i \in 1..Len(d) |-> d[i].item]

Pushed ==
  LET d == SelectSeq(pstream.ops, LAMBDA e : e.op = "push")
  IN  [i \in 1..Len(d) |-> d[i].item]

Capped == pstream.maxResults >= 1 /\ pstream.firstPageToken = NoRequest

\* C26: with maxResults = k >= 1 the stream pushes at most k resources, they
\* are the first non-null resources of the pages in order, and what the
\* consumer has received as data plus what is buffered is exactly what was
\* pushed; at the k-th push the stream is ended with no page request pending
\* or scheduled and none issued beyond the page of the k-th resource; and
\* when the pages hold at least k non-null resources, the 'end' event comes
\* after exactly the first k of them as data.
C26_MaxResultsCap ==
  Capped =>
    LET k == pstream.maxResults
    IN  /\ Len(Pushed) <= k
        /\ Pushed = FirstOf(NonNullResources, Len(Pushed))
        /\ DataSeen \o pstream.buffer = Pushed
        /\ Len(Pushed) = k =>
             /\ pstream.ended
             /\ pstream.inflight = << >> /\ pstream.immediates = << >>
             /\ Len(pstream.requests) = Pushed[k].page
        /\ (pstream.endEmitted /\ Len(NonNullResources) >= k) =>
             DataSeen = FirstOf(NonNullResources, k)

\* maxResults = 3 over two pages of two resources: three data events, then
\* end, with the fourth resource fetched and not delivered
C26_Witness ==
  /\ Capped /\ pstream.maxResults = 3
  /\ Len(NonNullResources) = 4
  /\ Len(pstream.script.pages) = 2
  /\ pstream.endEmitted
  /\ Len(DataSeen) = 3
  /\ Len(pstream.requests) = 2

\* the page a logged request asks for
RequestedPage(r) == IF r.pageToken # NoRequest THEN r.pageToken ELSE r.request

\* C27: the first page request is the caller's request with the caller's
\* options, pageToken included when it was given; every later page request
\* is made with options without pageToken, and its request is the next-page
\* request that the page before it returned.
C27_PageTokenReset ==
  \A i \in 1..Len(pstream.requests) :
    LET r == pstream.requests[i]
    IN  IF i = 1
        THEN r.request = FirstRequest /\ r.pageToken = pstream.firstPageToken
        ELSE /\ r.pageToken = NoRequest
             /\ r.request = RequestedPage(pstream.requests[i - 1]) + 1
             /\ RequestedPage(pstream.requests[i - 1]) < Len(pstream.script.pages)

\* a stream started with a pageToken has requested a second page
C27_Witness ==
  /\ pstream.firstPageToken = FirstRequest
  /\ Len(pstream.requests) = 2
  /\ pstream.requests[1].pageToken = FirstRequest
  /\ pstream.requests[2] = [request |-> FirstRequest + 1, pageToken |-> NoRequest]
  /\ pstream.ended

\* at most one page request is in flight or scheduled, and none while the
\* next request is stored for the next resume
OneRequestAtATime ==
  /\ Len(pstream.inflight) + Len(pstream.immediates) <= 1
  /\ ~pstream.started => pstream.inflight = << >> /\ pstream.immediates = << >>
  /\ pstream.flowing = "null" => pstream.requests = << >>

\* a step issues at most one page request, and only from a 'resume' event
\* that finds no request started (the stored request) or from the immediate
\* scheduled by a page that arrived while the stream was not paused
IssuedOnResume ==
  LET issued == Len(pstream'.requests) - Len(pstream.requests)
  IN  /\ issued \in {0, 1}
      /\ issued = 1 =>
           \/ /\ pstream.resumeScheduled /\ ~pstream'.resumeScheduled
              /\ ~pstream.started /\ pstream'.started
              /\ pstream'.requests[Len(pstream'.requests)].request = pstream.request
           \/ /\ pstream.immediates # << >> /\ pstream'.immediates = << >>
              /\ pstream'.requests[Len(pstream'.requests)].request =
                   Head(pstream.immediates)

\* a page with a next page that arrives at a paused stream stores the next
\* request and dispatches nothing
StoredWhilePaused ==
  ( /\ pstream.inflight # << >> /\ pstream'.inflight = << >>
    /\ pstream.flowing = "paused"
    /\ ~pstream'.ended
    /\ Len(pstream'.ops) > Len(pstream.ops)
    /\ pstream'.ops[Len(pstream.ops) + 1].op = "response" ) =>
      /\ pstream'.request = Head(pstream.inflight) + 1
      /\ ~pstream'.started
      /\ pstream'.immediates = << >>
      /\ pstream'.requests = pstream.requests

\* C28: nothing is requested before the first resume; the first request is
\* issued by the first 'resume' event; a page with a next page that arrives
\* while the stream is paused stores the next request, which only a later
\* 'resume' event dispatches, once; and a 'resume' event while a request is
\* in flight issues nothing.
C28_LazyAndBackPressure ==
  /\ []OneRequestAtATime
  /\ [][IssuedOnResume /\ StoredWhilePaused]_vars

\* the first page arrived at a paused stream and the request for the second
\* page is stored
C28_Witness ==
  /\ pstream.flowing = "paused"
  /\ Len(pstream.requests) = 1
  /\ pstream.request = FirstRequest + 1
  /\ ~pstream.started
  /\ \E i \in 1..Len(pstream.ops) : pstream.ops[i].op = "response"
  /\ ~pstream.ended

\* the pages whose response event the stream has emitted, in order
Responded ==
  LET d == SelectSeq(pstream.ops, LAMBDA e : e.op = "response")
  IN  [i \in 1..Len(d) |-> d[i].page]

\* the non-null resources of the pages responded so far, in order
RECURSIVE NonNullUpTo(_)
NonNullUpTo(n) ==
  IF n = 0 THEN << >>
  ELSE NonNullUpTo(n - 1)
       \o SelectSeq(ExpectedItems(pstream.script, Responded[n]),
                    LAMBDA e : e.shape # "null")

PositionsOf(name) == {i \in DOMAIN pstream.ops : pstream.ops[i].op = name}

\* C29: the stream emits one response event per page received without
\* error, carrying that page's raw response, before any resource of the page
\* is pushed; the resources pushed are the non-null resources of those pages
\* in page and array order, each once, cut only by a maxResults cap, which
\* counts pushed resources and not the nulls skipped; the stream is ended at
\* most once, and it is ended when the last page received has no next page.
C29_PerPageEvents ==
  /\ \A i \in 1..Len(Responded) :
       Responded[i] = RequestedPage(pstream.requests[i])
  /\ Len(Responded) + Len(pstream.inflight) + Cardinality(PositionsOf("error"))
       = Len(pstream.requests)
  /\ \A j \in PositionsOf("push") :
       \E i \in PositionsOf("response") :
         /\ i < j
         /\ pstream.ops[i].page = pstream.ops[j].item.page
  /\ Pushed = FirstOf(NonNullUpTo(Len(Responded)),
                      IF pstream.maxResults >= 1 THEN pstream.maxResults
                      ELSE Len(NonNullUpTo(Len(Responded))))
  /\ pstream.pushCount = Len(Pushed)
  /\ Cardinality(PositionsOf("end")) <= 1
  /\ pstream.ended <=> PositionsOf("end") # {}
  /\ (Responded # << >>
      /\ NextOf(pstream.script, Responded[Len(Responded)]) = NoRequest) =>
       pstream.ended

\* two pages were received, a null resource was skipped, and the stream
\* ended with the last page
C29_Witness ==
  /\ Responded = << 1, 2 >>
  /\ \E t \in 1..2 : \E i \in 1..Len(pstream.script.pages[t].items) :
       pstream.script.pages[t].items[i] = "null"
  /\ Len(Pushed) = 2
  /\ pstream.maxResults = -1
  /\ pstream.endEmitted

\* ---- C31 ----
LegacyErrors == { i \in 1..Len(legacy.out) : legacy.out[i].ev = "error" }

LegacyResponses == { i \in 1..Len(legacy.out) : legacy.out[i].ev = "response" }

\* the request stream that is current
LegacyCurrent == Len(legacy.requests)

\* C31: the helper issues a further request only when the first event handled
\* for the current attempt was an error, it issues at most maxRetries + 1
\* requests (two by default), the returned stream gets the error exactly when
\* the first event handled for attempt maxRetries + 1 was an error, and once a
\* response has been handled no further request is issued.
C31_LegacyRetryBudget ==
  legacy.started =>
    /\ LegacyCurrent <= legacy.maxRetries + 1
    /\ \A k \in 1..LegacyCurrent :
         k < LegacyCurrent =>
           /\ legacy.requests[k].handled = "error"
           /\ legacy.requests[k + 1].cause = k
    /\ (LegacyErrors # {}) <=>
         /\ LegacyCurrent = legacy.maxRetries + 1
         /\ legacy.requests[LegacyCurrent].handled = "error"
    /\ Cardinality(LegacyErrors) <= 1
    /\ \A i \in LegacyResponses : legacy.out[i].cur = LegacyCurrent

C31_Witness ==
  /\ legacy.started
  /\ legacy.maxRetries = DEFAULTS.maxRetries
  /\ LegacyCurrent = legacy.maxRetries + 1
  /\ LegacyErrors # {}

\* ---- C32 ----
RECURSIVE delayOf(_)
\* delay_0 = initialRetryDelayMillis,
\* delay_{n+1} = min(delay_n * retryDelayMultiplier, maxRetryDelayMillis)
delayOf(n) ==
  IF n = 0 THEN backoff.settings.initialRetryDelayMillis
  ELSE nextDelay(backoff, delayOf(n - 1))

\* C32: the wait before each retry is drawn from [0, delay_n), where the first
\* retry uses delay_0 = initialRetryDelayMillis and every later one the delay
\* of the retry before multiplied by retryDelayMultiplier and capped at
\* maxRetryDelayMillis.
C32_BackoffGrowth ==
  \A n \in 1..Len(backoff.handlers) :
    /\ backoff.handlers[n].bound = delayOf(n - 1)
    /\ backoff.handlers[n].toSleep \in random(delayOf(n - 1))

\* ---- C33 ----
\* C33: the check that maxRetries and totalTimeoutMillis are not both set runs
\* for every upstream error before the retry policy is consulted, so with both
\* configured (here: both non-zero) an error the policy does not classify as
\* retryable also reaches the consumer as the INVALID_ARGUMENT error 'Cannot
\* set both totalTimeoutMillis and maxRetries in backoffSettings.'.
C33_NonRetryableRejected ==
  (Truthy(cfg.maxRetries) /\ Truthy(cfg.totalTimeoutMillis)) =>
    \A k \in 1..Len(att) :
      (att[k].enteredError /\ ~Retryable(att[k].err)) =>
        \E i \in ErrorEvents :
          /\ consumer[i].error.code = INVALID_ARGUMENT
          /\ consumer[i].error.msg = MsgBoth

\* ---- C34 ----
\* C34: a next() call stops polling as soon as maxAttemptsEmptyResponse (10)
\* pages in a row came back without resources: it never issues an 11th page
\* request, and it resolves {done: true, value: undefined}.
C34_StopsAfterTenEmptyPages ==
  /\ iter.polled <= maxAttemptsEmptyResponse
  /\ iter.attempts >= maxAttemptsEmptyResponse =>
       /\ iter.pc \in {"break", "idle"}
       /\ iter.pc = "idle" => LastResult = [done |-> TRUE, value |-> UNDEF]

\* ---- C38 ----
\* the last next() that resolved, resolved {done: true}
IterDone == iter.results # << >> /\ iter.results[Len(iter.results)].done

\* C38: once a next() call has resolved {done: true}, because the next-page
\* request was null or because the empty-page guard fired, no step issues a
\* further page request and every later next() resolves {done: true}.
C38_DoneIsSticky ==
  [][ IterDone =>
        /\ iter'.requests = iter.requests
        /\ Len(iter'.results) > Len(iter.results) =>
             iter'.results[Len(iter'.results)].done ]_vars

\* ---- C35 ----
\* at most one retry timer is pending, it belongs to the last attempt, and
\* that attempt failed with a retryable error
OneTimerOfLastAttempt ==
  \A k \in timers :
    /\ timers = {k}
    /\ k = Len(att) /\ Len(calls) = k
    /\ att[k].enteredError /\ Retryable(att[k].err)

\* a step that schedules a timer schedules one, for the attempt whose error it
\* handles, and makes no upstream call
SchedulesOneTimer ==
  timers' \ timers # {} =>
    /\ \E k \in 1..Len(att) :
         /\ timers' = timers \cup {k}
         /\ ~att[k].enteredError /\ att'[k].enteredError
    /\ calls' = calls /\ retries' = retries

\* a step that makes a retry call is the firing of the pending timer, and it
\* has incremented the retry counter once
CallsWhenTimerFires ==
  (Len(calls) >= 1 /\ calls' # calls) =>
    /\ Len(calls') = Len(calls) + 1
    /\ timers # {} /\ timers' = {}
    /\ retries' = retries + 1

\* C35: after a retryable error within budget exactly one timer is scheduled;
\* the next upstream call is made only when that timer fires, in the step that
\* has incremented the retry counter once, and no upstream call is made
\* between the error and the firing of the timer.
C35_RetryOrdering ==
  /\ []OneTimerOfLastAttempt
  /\ [][SchedulesOneTimer /\ CallsWhenTimerFires]_vars

\* a second retry call was made after two timers fired
C35_Witness ==
  /\ Len(calls) = 3 /\ retries = 2 /\ timers = {}
  /\ att[1].enteredError /\ att[2].enteredError

\* ---- C36 ----
\* C36: however close() calls interleave with each other and with the
\* settling of the stub promise, stub.close() is invoked at most once and
\* _terminated goes from false to true at most once and never back.
C36_CloseOnce ==
  /\ iam.stubCloseCalls <= 1
  /\ Cardinality({n \in 1..Len(iam.assigned) : ~iam.assigned[n]}) <= 1
  /\ iam.assigned # << >> => iam.terminated

\* ---- C37 ----
\* C37: an API call made after a close() has resolved is rejected with 'The
\* client has already been closed.' without a stub method being invoked;
\* createStub is called at most once and every initialize() returns the
\* promise of that one call.
C37_ClosedClientRejects ==
  /\ \A j \in 1..Len(iam.calls) :
       iam.calls[j].closed =>
         /\ iam.calls[j].pc \in {"waiting", "rejected"}
         /\ iam.calls[j].pc = "rejected" => iam.calls[j].reason = MsgClosed
         /\ \A n \in 1..Len(iam.stubCalls) : iam.stubCalls[n].call # j
  /\ iam.createStubCalls <= 1
  /\ \A n \in 1..Len(iam.initialized) : iam.initialized[n] = 1

\* an API call made after close() resolved was rejected, and initialize() was
\* called again after the stub was created
C37_Witness ==
  /\ \E j \in 1..Len(iam.calls) :
       /\ iam.calls[j].closed
       /\ iam.calls[j].pc = "rejected" /\ iam.calls[j].reason = MsgClosed
  /\ Len(iam.initialized) >= 3
  /\ iam.explicit >= 1

\* ---- C39 ----
\* C39: an event of a superseded request stream never decides the outcome of
\* the current attempt: the event that marks an attempt as handled comes from
\* that attempt's own stream, a request is made only for an error of the
\* stream that was current, and the returned stream is connected to the data
\* of an attempt only by that attempt's own response.
C39_AttemptIsolation ==
  /\ \A k \in 1..LegacyCurrent :
       /\ legacy.requests[k].handled # "none" => legacy.requests[k].handledSrc = k
       /\ k > 1 => legacy.requests[k].cause = k - 1
  /\ \A i \in LegacyResponses : legacy.out[i].src = legacy.out[i].cur

\* ---- C40 ----
\* C40: when cancel() was called before setStream(), setStream() in the new
\* retry mode makes no upstream call and completes without throwing.
C40_CancelBeforeSetStream ==
  (isCancelCalled /\ phase # "constructed") =>
    /\ calls = << >>
    /\ phase = "streaming"

====
